---- MODULE Spec2Model ----
(***************************************************************************)
(* Model of the Cards-Android-Backend server: the room store               *)
(* (app/crud/crud_room.py), the card primitives (app/domain/game_logic.py),*)
(* the action variants (app/websocket/actions), the request-path endpoints *)
(* (app/api/v1/endpoints/rooms.py) and the real-time handlers that main.py *)
(* registers (app/websocket/game_event_handler.py).                        *)
(*                                                                         *)
(* Python values are rendered as follows.  A list is a sequence.  An       *)
(* Optional[...] object (a room document that may be missing, game_state)  *)
(* is a sequence of length 0 (None) or 1.  An Optional[str] is the string  *)
(* None.  An Optional[int] is NoneIdx.  A dict keyed by guest id is a      *)
(* function whose DOMAIN is the set of keys present.  Timestamps are not   *)
(* modelled; a write that only refreshes a timestamp leaves the modelled   *)
(* document unchanged but is still counted as a write.                     *)
(***************************************************************************)
EXTENDS Integers, Sequences, FiniteSets, TLC

(***************************************************************************)
(* Bounds of the model.                                                    *)
(***************************************************************************)
\* Only the first MaxCardsPerDeck of a deck's 52 standard cards are generated.
MaxCardsPerDeck == 2
\* Successful player actions per started game.
MaxActions == 2
\* Longest card list a client payload carries.
MaxPayload == 2

None == "None"
NoneIdx == -1

Guests == {"A", "B", "C"}
RoomIds == {"r1", "r2"}

\* the room of the one-room scenarios
Lobby == {"r1"}

\* A guest's connection id (one live connection per guest).
SidOf(g) == "sid-" \o g

(***************************************************************************)
(* Sequence helpers with Python list semantics.                            *)
(***************************************************************************)
Range(s) == {s[i] : i \in 1..Len(s)}

\* x in s
Contains(s, x) == \E i \in 1..Len(s) : s[i] = x

\* index of the first occurrence of x in s (0 when absent)
IndexOf(s, x) ==
    IF Contains(s, x) THEN CHOOSE i \in 1..Len(s) : s[i] = x /\ \A j \in 1..(i - 1) : s[j] # x
    ELSE 0

\* s.remove(x): drops the first occurrence
RemoveFirst(s, x) ==
    LET i == IndexOf(s, x)
    IN  IF i = 0 THEN s ELSE SubSeq(s, 1, i - 1) \o SubSeq(s, i + 1, Len(s))

\* s.pop() leaves this
Front(s) == SubSeq(s, 1, Len(s) - 1)

Last(s) == s[Len(s)]

RECURSIVE Flatten(_)
Flatten(ss) == IF ss = <<>> THEN <<>> ELSE Head(ss) \o Flatten(Tail(ss))

\* number of occurrences of x in s
Count(s, x) == Cardinality({i \in 1..Len(s) : s[i] = x})

\* the outcomes of random.shuffle(s)
Shuffles(s) ==
    LET n == Len(s)
        perms == {p \in [1..n -> 1..n] : \A i, j \in 1..n : i # j => p[i] # p[j]}
    IN  {[i \in 1..n |-> s[p[i]]] : p \in perms}

\* sequences over S of length lo..hi
SeqsBetween(S, lo, hi) == UNION {[1..n -> S] : n \in lo..hi}

(***************************************************************************)
(* Cards and decks.                                                        *)
(***************************************************************************)
suits == <<"H", "D", "C", "S">>
ranks == <<"2", "3", "4", "5", "6", "7", "8", "9", "10", "J", "Q", "K", "A">>

\* Card(id=f"{suit}{rank}-{deck_id}", suit=suit, rank=rank, deckId=deck_id):
\* the id is a function of the other three fields.
Card(suit, rank, deck_id) == [suit |-> suit, rank |-> rank, deckId |-> deck_id]

\* the standard cards of one deck, suit-major, cut to the model's bound
StandardCards(deck_id) ==
    LET all == [k \in 1..(Len(suits) * Len(ranks)) |->
                   Card(suits[((k - 1) \div Len(ranks)) + 1],
                        ranks[((k - 1) % Len(ranks)) + 1], deck_id)]
    IN  SubSeq(all, 1, MaxCardsPerDeck)

Jokers(deck_id) == <<Card("Red", "Joker", deck_id), Card("Black", "Joker", deck_id)>>

\* game_logic.create_deck: jokers follow each deck's standard cards
RECURSIVE create_deck_from(_, _, _)
create_deck_from(deck_id, num_decks, include_jokers) ==
    IF deck_id >= num_decks THEN <<>>
    ELSE StandardCards(deck_id)
         \o (IF include_jokers THEN Jokers(deck_id) ELSE <<>>)
         \o create_deck_from(deck_id + 1, num_decks, include_jokers)

create_deck(num_decks, include_jokers) == create_deck_from(0, num_decks, include_jokers)

\* crud_room._create_deck before its shuffle: all standard cards, then all jokers
RECURSIVE StandardFrom(_, _)
StandardFrom(i, n) == IF i >= n THEN <<>> ELSE StandardCards(i) \o StandardFrom(i + 1, n)

RECURSIVE JokersFrom(_, _)
JokersFrom(i, n) == IF i >= n THEN <<>> ELSE Jokers(i) \o JokersFrom(i + 1, n)

_create_deck(settings) ==
    StandardFrom(0, settings.number_of_decks)
    \o (IF settings.include_jokers THEN JokersFrom(0, settings.number_of_decks) ELSE <<>>)

\* every card any deck of the model can hold
AllCards == Range(create_deck(1, FALSE))

(***************************************************************************)
(* The room document (app/models/room.py).                                 *)
(***************************************************************************)
\* PlayerInRoom(guest_id, sid, is_ready=False, hand=[])
PlayerInRoom(guest_id, sid, is_ready) ==
    [guest_id |-> guest_id, sid |-> sid, is_ready |-> is_ready, hand |-> <<>>]

\* RoomSettings
RoomSettings(number_of_decks, include_jokers, max_players, initial_deal_count) ==
    [number_of_decks |-> number_of_decks, include_jokers |-> include_jokers,
     max_players |-> max_players, initial_deal_count |-> initial_deal_count]

\* CardGameSpecificState with its field defaults
CardGameSpecificState ==
    [status |-> "pending_start", current_turn_guest_id |-> None,
     current_player_index |-> NoneIdx, turn_number |-> 0, turn_order |-> <<>>,
     deck |-> <<>>, discard_pile |-> <<>>, table |-> <<>>,
     last_player_id |-> None, last_played_or_discarded_cards |-> <<>>]

\* A stored last_activity, as the sweep sees it: Now is a time inside the
\* inactivity window (datetime.now at the write), Expired one the window
\* has passed over.
Now == "now"
Expired == "expired"

\* Room(_id, host_id, players, settings, game_state=None), status defaults to
\* waiting and last_activity to the time of construction
Room(host_id, players, settings) ==
    [host_id |-> host_id, players |-> players, status |-> "waiting",
     settings |-> settings, game_state |-> <<>>, last_activity |-> Now]

\* room.last_activity = datetime.now(timezone.utc)
Touched(room) == [room EXCEPT !.last_activity = Now]

GS(room) == room.game_state[1]

guest_ids(players) == [i \in 1..Len(players) |-> players[i].guest_id]

\* any(p.guest_id == guest_id for p in players)
InRoom(players, guest_id) == \E i \in 1..Len(players) : players[i].guest_id = guest_id

\* the list position of the first record of guest_id (0 when absent)
PlayerIndex(players, guest_id) == IndexOf(guest_ids(players), guest_id)

\* dict[key] = value
DictSet(d, k, v) == [x \in (DOMAIN d) \cup {k} |-> IF x = k THEN v ELSE d[x]]

\* dict.pop(key, None)
DictPop(d, k) ==
    IF (DOMAIN d) \ {k} = {} THEN <<>> ELSE [x \in (DOMAIN d) \ {k} |-> d[x]]

(***************************************************************************)
(* Card primitives (app/domain/game_logic.py).  player_index is the        *)
(* 1-based position in room.players.                                       *)
(***************************************************************************)
\* for card in cards: if card in hand: hand.remove(card)
RECURSIVE RemoveOwned(_, _)
RemoveOwned(hand, cards) ==
    IF cards = <<>> THEN hand
    ELSE RemoveOwned(RemoveFirst(hand, Head(cards)), Tail(cards))

play_cards(room, player_index, cards) ==
    IF room.game_state = <<>> THEN room
    ELSE LET player == room.players[player_index]
             gs == GS(room)
         IN  [room EXCEPT
                !.players[player_index].hand = RemoveOwned(player.hand, cards),
                !.game_state = <<[gs EXCEPT
                    !.table = Append(gs.table, cards),
                    !.last_player_id = player.guest_id,
                    !.last_played_or_discarded_cards =
                        DictSet(gs.last_played_or_discarded_cards, player.guest_id, cards)]>>]

\* the cards of the payload that the discard loop moves, in order
RECURSIVE Discarded(_, _)
Discarded(hand, cards) ==
    IF cards = <<>> THEN <<>>
    ELSE IF Contains(hand, Head(cards))
         THEN <<Head(cards)>> \o Discarded(RemoveFirst(hand, Head(cards)), Tail(cards))
         ELSE Discarded(hand, Tail(cards))

discard_cards(room, player_index, cards) ==
    IF room.game_state = <<>> THEN room
    ELSE LET player == room.players[player_index]
             gs == GS(room)
         IN  [room EXCEPT
                !.players[player_index].hand = RemoveOwned(player.hand, cards),
                !.game_state = <<[gs EXCEPT
                    !.discard_pile = gs.discard_pile \o Discarded(player.hand, cards),
                    !.last_player_id = player.guest_id,
                    !.last_played_or_discarded_cards =
                        DictSet(gs.last_played_or_discarded_cards, player.guest_id, cards)]>>]

recall_cards(room, player_index) ==
    IF room.game_state = <<>> THEN room
    ELSE LET player == room.players[player_index]
             player_id == player.guest_id
             gs == GS(room)
             record == gs.last_played_or_discarded_cards
         IN  IF gs.last_player_id # player_id THEN room
             ELSE IF player_id \notin DOMAIN record \/ record[player_id] = <<>> THEN room
             ELSE LET cards_to_recall == record[player_id]
                  IN  [room EXCEPT
                         !.players[player_index].hand = player.hand \o cards_to_recall,
                         !.game_state = <<[gs EXCEPT
                             !.table = RemoveFirst(gs.table, cards_to_recall),
                             !.last_played_or_discarded_cards = DictPop(record, player_id),
                             !.last_player_id = None]>>]

\* the loop of move_cards_to_player over the player list; source and target
\* may be the same record
RECURSIVE MoveLoop(_, _, _, _)
MoveLoop(players, src, tgt, cards) ==
    IF cards = <<>> THEN players
    ELSE IF Contains(players[src].hand, Head(cards))
         THEN LET removed == [players EXCEPT ![src].hand = RemoveFirst(@, Head(cards))]
                  moved == [removed EXCEPT ![tgt].hand = Append(@, Head(cards))]
              IN  MoveLoop(moved, src, tgt, Tail(cards))
         ELSE MoveLoop(players, src, tgt, Tail(cards))

move_cards_to_player(room, source_player_index, cards, target_player_id) ==
    LET tgt == PlayerIndex(room.players, target_player_id)
    IN  IF tgt = 0 THEN room
        ELSE [room EXCEPT !.players = MoveLoop(room.players, source_player_index, tgt, cards)]

\* the rooms shuffle_deck can leave: the table is flattened onto the deck,
\* then random.shuffle
shuffle_deck(room) ==
    IF room.game_state = <<>> THEN {room}
    ELSE LET gs == GS(room)
         IN  {[room EXCEPT !.game_state = <<[gs EXCEPT !.deck = d, !.table = <<>>]>>] :
                 d \in Shuffles(gs.deck \o Flatten(gs.table))}

\* one pass of deal_cards over the players i..Len(players)
RECURSIVE DealPass(_, _, _)
DealPass(players, deck, i) ==
    IF i > Len(players) THEN [players |-> players, deck |-> deck]
    ELSE IF deck # <<>>
         THEN DealPass([players EXCEPT ![i].hand = Append(@, Last(deck))], Front(deck), i + 1)
         ELSE DealPass(players, deck, i + 1)

RECURSIVE DealRounds(_, _, _)
DealRounds(players, deck, count) ==
    IF count <= 0 THEN [players |-> players, deck |-> deck]
    ELSE LET r == DealPass(players, deck, 1)
         IN  DealRounds(r.players, r.deck, count - 1)

deal_cards(room, count) ==
    IF room.game_state = <<>> THEN room
    ELSE LET r == DealRounds(room.players, GS(room).deck, count)
         IN  [room EXCEPT !.players = r.players, !.game_state[1].deck = r.deck]

draw_card(room, player_index) ==
    IF room.game_state = <<>> \/ GS(room).deck = <<>> THEN room
    ELSE [room EXCEPT !.players[player_index].hand = Append(@, Last(GS(room).deck)),
                      !.game_state[1].deck = Front(@)]

draw_to_discard(room) ==
    IF room.game_state = <<>> \/ GS(room).deck = <<>> THEN room
    ELSE [room EXCEPT !.game_state[1].discard_pile = Append(@, Last(GS(room).deck)),
                      !.game_state[1].deck = Front(@)]

draw_from_discard(room, player_index) ==
    IF room.game_state = <<>> \/ GS(room).discard_pile = <<>> THEN room
    ELSE [room EXCEPT !.players[player_index].hand = Append(@, Last(GS(room).discard_pile)),
                      !.game_state[1].discard_pile = Front(@)]

\* the game states initialize_game_state can return, as CardGameSpecificState(**dict)
\* keeps them: room_id, players and current_turn are not fields of the model
\* and are dropped
initialize_game_state(settings) ==
    {[CardGameSpecificState EXCEPT !.status = "active", !.deck = d] :
        d \in Shuffles(create_deck(settings.number_of_decks, settings.include_jokers))}

(***************************************************************************)
(* Action variants (app/websocket/actions).  validate_action is rendered   *)
(* as the text of the ValueError it raises, or OK.                         *)
(***************************************************************************)
OK == "ok"

\* an action payload; a field the variant does not declare is ignored
ActionData(cards, target_player_id, count) ==
    [cards |-> cards, target_player_id |-> target_player_id, count |-> count]

validate_game_started(game_state) ==
    IF game_state = <<>> THEN "Game not started" ELSE OK

validate_player_exists(player_index, room) ==
    IF room.players = <<>> \/ player_index < 1 \/ player_index > Len(room.players)
    THEN "Player not found in room" ELSE OK

\* an ownership check that is content with one owned card
OwnsSomeCard(player, cards) ==
    IF cards = <<>> \/ \E i \in 1..Len(cards) : Contains(player.hand, cards[i])
    THEN OK ELSE "Player does not have all of these cards"

\* all(card in player.hand for card in cards)
validate_card_ownership(player, cards) ==
    IF \A i \in 1..Len(cards) : Contains(player.hand, cards[i])
    THEN OK ELSE "Player does not have all of these cards"

validate_cards_on_table(game_state) ==
    IF game_state[1].table = <<>>
    THEN "No cards on the table to recall" ELSE OK

validate_deck_not_empty(game_state) ==
    IF game_state[1].deck = <<>>
    THEN "No cards in deck to draw" ELSE OK

validate_discard_pile_not_empty(game_state) ==
    IF game_state[1].discard_pile = <<>>
    THEN "No cards in discard pile to draw" ELSE OK

validate_target_player(target_player_id, room) ==
    IF InRoom(room.players, target_player_id)
    THEN OK ELSE "Target player not found in the room"

\* a validate_action that lets every member through
AnyMemberMayAct(player_index, room) == OK

\* a validate_action that turns every member down
NobodyMayAct(player_index, room) == "Only the host can perform this action."

\* HostAction.validate_action
HostAction_validate(player_index, room) ==
    IF room.players[player_index].guest_id # room.host_id
    THEN "Only the host can perform this action." ELSE OK

\* the first check of a validate_action that raises decides its outcome
RECURSIVE FirstError(_)
FirstError(checks) ==
    IF checks = <<>> THEN OK
    ELSE IF Head(checks) # OK THEN Head(checks) ELSE FirstError(Tail(checks))

\* <Variant>.validate_action(player_index, game_state, room); a later check
\* is only evaluated when the earlier ones passed
validate_action(cls, data, player_index, room) ==
    LET gs == room.game_state
        exists == validate_player_exists(player_index, room)
        owns == IF exists = OK
                THEN validate_card_ownership(room.players[player_index], data.cards)
                ELSE exists
    IN  CASE cls = "PlayCardsAction" ->
               FirstError(<<validate_game_started(gs), owns>>)
          [] cls = "DiscardCardsAction" -> owns
          [] cls = "RecallCardsAction" ->
               IF validate_game_started(gs) # OK THEN validate_game_started(gs)
               ELSE validate_cards_on_table(gs)
          [] cls = "MoveCardsToPlayerAction" ->
               FirstError(<<owns, validate_target_player(data.target_player_id, room)>>)
          [] cls \in {"ShuffleDeckAction", "DealCardsAction"} ->
               HostAction_validate(player_index, room)
          [] cls = "DrawCardAction" ->
               FirstError(<<validate_game_started(gs), exists>>)
          [] cls = "DrawToDiscardAction" ->
               IF validate_game_started(gs) # OK THEN validate_game_started(gs)
               ELSE validate_deck_not_empty(gs)
          [] cls = "DrawFromDiscardAction" ->
               IF validate_game_started(gs) # OK THEN validate_game_started(gs)
               ELSE validate_discard_pile_not_empty(gs)
          [] cls = "UpdateHandOrderAction" -> exists

\* the rooms <Variant>.apply(game_state, player_index, room) can leave
apply(cls, data, player_index, room) ==
    CASE cls = "PlayCardsAction" -> {play_cards(room, player_index, data.cards)}
      [] cls = "DiscardCardsAction" -> {discard_cards(room, player_index, data.cards)}
      [] cls = "RecallCardsAction" -> {recall_cards(room, player_index)}
      [] cls = "MoveCardsToPlayerAction" ->
           {move_cards_to_player(room, player_index, data.cards, data.target_player_id)}
      [] cls = "ShuffleDeckAction" -> shuffle_deck(room)
      [] cls = "DealCardsAction" -> {deal_cards(room, data.count)}
      [] cls = "DrawCardAction" -> {draw_card(room, player_index)}
      [] cls = "DrawToDiscardAction" -> {draw_to_discard(room)}
      [] cls = "DrawFromDiscardAction" -> {draw_from_discard(room, player_index)}
      [] cls = "UpdateHandOrderAction" ->
           {[room EXCEPT !.players[player_index].hand = data.cards]}

\* GameEventHandler.handle_player_action's action_classes.get(action_type).
\* The handler imports the transfer variant as MoveCardToPlayerAction; the
\* class player_actions.py defines is MoveCardsToPlayerAction, which is the
\* one modelled under that key.
action_classes(action_type) ==
    CASE action_type = "PLAY_CARDS" -> "PlayCardsAction"
      [] action_type = "DISCARD_CARDS" -> "DiscardCardsAction"
      [] action_type = "RECALL_CARDS" -> "RecallCardsAction"
      [] action_type = "MOVE_CARD_TO_PLAYER" -> "MoveCardsToPlayerAction"
      [] action_type = "SHUFFLE_DECK" -> "ShuffleDeckAction"
      [] action_type = "DEAL_CARDS" -> "DealCardsAction"
      [] OTHER -> None

(***************************************************************************)
(* The room store (app/crud/crud_room.py).  db maps a room id to its       *)
(* document, <<>> when there is none.  Each operation below is one call    *)
(* run without interleaving: it yields the store it leaves (db) and the    *)
(* Optional[Room] it returns (ret).                                        *)
(***************************************************************************)
StoreResult(db, ret) == [db |-> db, ret |-> ret]

get_room_by_id(db, room_id) == db[room_id]

\* an insert that replaces the document stored under the id
InsertOrReplace(db, room_id, room) ==
    StoreResult([db EXCEPT ![room_id] = <<room>>], <<room>>)

\* create_room: insert_one with _id = room_id; DuplicateKeyError is answered
\* with None
create_room(db, room_id, room) ==
    IF db[room_id] # <<>> THEN StoreResult(db, <<>>)
    ELSE StoreResult([db EXCEPT ![room_id] = <<room>>], <<room>>)

\* an update that answers with the room it was given whether or not a
\* document matched
ReturnsWrittenRoom(db, room_id, room) ==
    IF db[room_id] = <<>> THEN StoreResult(db, <<room>>)
    ELSE StoreResult([db EXCEPT ![room_id] = <<room>>], <<room>>)

\* $set of the whole dumped room on the document with this id, if any
update_room(db, room_id, room) ==
    IF db[room_id] = <<>> THEN StoreResult(db, <<>>)
    ELSE StoreResult([db EXCEPT ![room_id] = <<room>>], <<room>>)

\* [p for p in room.players if p.guest_id != guest_id]
RECURSIVE WithoutGuest(_, _)
WithoutGuest(players, guest_id) ==
    IF players = <<>> THEN <<>>
    ELSE IF Head(players).guest_id = guest_id THEN WithoutGuest(Tail(players), guest_id)
         ELSE <<Head(players)>> \o WithoutGuest(Tail(players), guest_id)

\* the host after guest_id was filtered out of the list
HostAfterRemoval(host_id, guest_id, remaining) ==
    IF host_id = guest_id /\ remaining # <<>> THEN remaining[1].guest_id ELSE host_id

\* the document remove_player_from_room writes ($set players, host_id)
RoomWithoutPlayer(room, guest_id) ==
    LET remaining == WithoutGuest(room.players, guest_id)
    IN  [room EXCEPT !.players = remaining,
                     !.host_id = HostAfterRemoval(room.host_id, guest_id, remaining)]

remove_player_from_room(db, room_id, guest_id) ==
    IF db[room_id] = <<>> THEN StoreResult(db, <<>>)
    ELSE LET updated == RoomWithoutPlayer(db[room_id][1], guest_id)
         IN  StoreResult([db EXCEPT ![room_id] = <<updated>>], <<updated>>)

\* an update that puts the joining record in the place of the stored one
ReplaceRecord(room, player) ==
    [room EXCEPT !.players[PlayerIndex(room.players, player.guest_id)] = player]

\* the first find_one_and_update of add_player_to_room: players.$.sid of the
\* first record of this guest
RefreshSid(room, player) ==
    [room EXCEPT !.players[PlayerIndex(room.players, player.guest_id)].sid = player.sid]

\* len(players) >= max_players, on the document read by find_one
RoomIsFull(room) == Len(room.players) >= room.settings.max_players

\* the second find_one_and_update: it matches when no record has this guest
\* id, and then $addToSet appends the record
\* a $push with no condition on the guest ids already listed
PushRecord(room, player) == <<[room EXCEPT !.players = Append(@, player)]>>

AddToSet(room, player) ==
    IF InRoom(room.players, player.guest_id) THEN <<>>
    ELSE <<[room EXCEPT !.players = Append(@, player)]>>

add_player_to_room(db, room_id, player) ==
    IF db[room_id] = <<>> THEN StoreResult(db, <<>>)
    ELSE LET room == db[room_id][1]
         IN  IF InRoom(room.players, player.guest_id)
             THEN StoreResult([db EXCEPT ![room_id] = <<RefreshSid(room, player)>>],
                              <<RefreshSid(room, player)>>)
             ELSE IF RoomIsFull(room) THEN StoreResult(db, <<>>)
             ELSE StoreResult([db EXCEPT ![room_id] = AddToSet(room, player)],
                              AddToSet(room, player))

\* add_player_to_room from the point where find_one returned room_to_join
\* (the guest was not in the list when the first update ran): the capacity
\* check reads room_to_join, the update acts on the stored document, and
\* when it matches nothing the stored room is returned as it is
add_player_after_read(db, room_id, player, room_to_join) ==
    IF RoomIsFull(room_to_join) THEN StoreResult(db, <<>>)
    ELSE IF db[room_id] = <<>> THEN StoreResult(db, <<>>)
    ELSE IF AddToSet(db[room_id][1], player) = <<>>
         THEN StoreResult(db, get_room_by_id(db, room_id))
    ELSE StoreResult([db EXCEPT ![room_id] = AddToSet(db[room_id][1], player)],
                     AddToSet(db[room_id][1], player))

\* toggle_player_ready: every record of player_id is flipped, the list is written
ToggledPlayers(players, player_id) ==
    [i \in 1..Len(players) |->
        IF players[i].guest_id = player_id
        THEN [players[i] EXCEPT !.is_ready = ~@] ELSE players[i]]

toggle_player_ready(db, room_id, player_id) ==
    IF db[room_id] = <<>> THEN StoreResult(db, <<>>)
    ELSE LET room == db[room_id][1]
         IN  IF ~InRoom(room.players, player_id) THEN StoreResult(db, <<>>)
             ELSE LET updated == [room EXCEPT !.players = ToggledPlayers(@, player_id)]
                  IN  StoreResult([db EXCEPT ![room_id] = <<updated>>], <<updated>>)

\* [deck.pop() for _ in range(n)] for each player in turn; raised marks the
\* IndexError of a pop from an empty deck.  Yields the hands by list position
\* and the deck left.
RECURSIVE PopHands(_, _, _)
PopHands(deck, n_players, n) ==
    IF n_players = 0 THEN [hands |-> <<>>, deck |-> deck, raised |-> FALSE]
    ELSE IF Len(deck) < n THEN [hands |-> <<>>, deck |-> deck, raised |-> TRUE]
    ELSE LET hand == [k \in 1..n |-> deck[Len(deck) + 1 - k]]
             rest == PopHands(SubSeq(deck, 1, Len(deck) - n), n_players - 1, n)
         IN  [hands |-> <<hand>> \o rest.hands, deck |-> rest.deck, raised |-> rest.raised]

\* a deal that hands nothing out
UndealtPlayers(players, hands) == players

\* player.hand = player_hands.get(player.guest_id, []): the dict keeps, for a
\* guest id, the hand popped for its last record
DealtPlayers(players, hands) ==
    [i \in 1..Len(players) |->
        LET same == {j \in 1..Len(players) : players[j].guest_id = players[i].guest_id}
            j == CHOOSE j \in same : \A k \in same : k <= j
        IN  [players[i] EXCEPT !.hand = hands[j]]]

\* the rooms start_game can write for one stored room; empty when it raises
StartedRooms(room) ==
    UNION {LET popped == PopHands(deck, Len(room.players), room.settings.initial_deal_count)
           IN  IF popped.raised \/ room.players = <<>> THEN {}
               ELSE {[room EXCEPT
                        !.players = DealtPlayers(room.players, popped.hands),
                        !.status = "active",
                        !.game_state = <<[CardGameSpecificState EXCEPT
                            !.status = "active",
                            !.deck = popped.deck,
                            !.current_turn_guest_id = room.players[1].guest_id,
                            !.turn_order = guest_ids(room.players),
                            !.current_player_index = 0]>>]}
           : deck \in Shuffles(_create_deck(room.settings))}

\* the outcomes of start_game(room_id)
start_game(db, room_id) ==
    IF db[room_id] = <<>> \/ StartedRooms(db[room_id][1]) = {} THEN {StoreResult(db, <<>>)}
    ELSE {StoreResult([db EXCEPT ![room_id] = <<r>>], <<r>>) : r \in StartedRooms(db[room_id][1])}

\* restart_game first empties every hand and marks every player ready
ReadiedPlayers(players) ==
    [i \in 1..Len(players) |-> [players[i] EXCEPT !.hand = <<>>, !.is_ready = TRUE]]

\* the outcomes of restart_game(room_id); a write that changes nothing
\* (modified_count = 0) is reported as a failure
restart_game(db, room_id) ==
    IF db[room_id] = <<>> THEN {StoreResult(db, <<>>)}
    ELSE LET room == db[room_id][1]
             fresh == StartedRooms([room EXCEPT !.players = ReadiedPlayers(@)])
         IN  IF fresh = {} THEN {StoreResult(db, <<>>)}
             ELSE {IF r = room THEN StoreResult(db, <<>>)
                   ELSE StoreResult([db EXCEPT ![room_id] = <<r>>], <<r>>) : r \in fresh}

\* remove_player_from_room from the point where find_one returned room_doc:
\* the list and the host computed from room_doc are $set on the stored
\* document, and None is returned when no document was modified
remove_player_after_read(db, room_id, guest_id, room_doc) ==
    IF db[room_id] = <<>> THEN StoreResult(db, <<>>)
    ELSE LET computed == RoomWithoutPlayer(room_doc, guest_id)
             updated == [db[room_id][1] EXCEPT !.players = computed.players,
                                               !.host_id = computed.host_id]
         IN  StoreResult([db EXCEPT ![room_id] = <<updated>>], <<updated>>)

\* start_game from the point where get_room_by_id returned room: the dumped
\* room is $set on the stored document, if any, and the room read back is
\* returned
start_game_after_read(db, room_id, room) ==
    IF StartedRooms(room) = {} THEN {StoreResult(db, <<>>)}
    ELSE IF db[room_id] = <<>> THEN {StoreResult(db, <<>>)}
    ELSE {StoreResult([db EXCEPT ![room_id] = <<r>>], <<r>>) : r \in StartedRooms(room)}

\* toggle_player_ready from the point where get_room_by_id returned room, a
\* room that lists player_id: the list computed from room is $set on the
\* stored document, and the room as computed is returned
toggle_after_read(db, room_id, player_id, room) ==
    IF db[room_id] = <<>> THEN StoreResult(db, <<>>)
    ELSE LET toggled == ToggledPlayers(room.players, player_id)
         IN  StoreResult([db EXCEPT ![room_id] = <<[db[room_id][1] EXCEPT !.players = toggled]>>],
                         <<[room EXCEPT !.players = toggled]>>)

\* delete_one({"_id": room_id}); ret is deleted_count == 1
delete_room(db, room_id) ==
    StoreResult([db EXCEPT ![room_id] = <<>>], db[room_id] # <<>>)

\* the orders in which a find can return the ids in ids
ResultLists(ids) ==
    {s \in SeqsBetween(ids, Cardinality(ids), Cardinality(ids)) : Range(s) = ids}

\* find({"players": {"$size": 0}})
get_rooms_with_no_players(db) ==
    ResultLists({r \in RoomIds : db[r] # <<>> /\ db[r][1].players = <<>>})

\* find({"last_activity": {"$lt": threshold}}) with threshold = now - 60 minutes
get_rooms_inactive_since(db) ==
    ResultLists({r \in RoomIds : db[r] # <<>> /\ db[r][1].last_activity = Expired})

(***************************************************************************)
(* State.                                                                  *)
(***************************************************************************)
VARIABLES
    db,         \* the rooms collection: room id -> <<>> or <<room document>>
    session,    \* per guest connection: connected, joined_rooms (the sio session)
    sio_rooms,  \* the delivery group of each room id: the sids entered
    inflight,   \* per guest: <<>> or the request suspended at an await
    successes,  \* per room id: successful player actions since the game was (re)started
    sweep,      \* the room ids a running sweep has queried and not yet deleted
    last        \* what the handler that ran last did: outcome, store writes, events

vars == <<db, session, sio_rooms, inflight, successes, sweep, last>>

\* sio.emit(event, data, to=..., room=..., skip_sid=...); to = room = None is
\* an emit to every connection
Emit(event, to, room, skip_sid, data) ==
    [event |-> event, to |-> to, room |-> room, skip_sid |-> skip_sid, data |-> data]

Done(op, guest, room_id, arg, ok, writes, emits) ==
    [op |-> op, guest |-> guest, room_id |-> room_id, arg |-> arg, ok |-> ok,
     writes |-> writes, emits |-> emits]

NoSession == [connected |-> FALSE, joined_rooms |-> <<>>]

\* the card lists a client can send: any cards of the deck, repeats included
CardLists == SeqsBetween(AllCards, 0, MaxPayload)

DealCounts == {1, 2}

NoData == ActionData(<<>>, None, 0)

\* the playerAction events a client can send (DRAW_CARD is a type the
\* dispatcher table does not list)
ActionInputs ==
    {[action_type |-> t, action_data |-> ActionData(c, None, 0)] :
        t \in {"PLAY_CARDS", "DISCARD_CARDS"}, c \in CardLists}
    \cup {[action_type |-> "MOVE_CARD_TO_PLAYER", action_data |-> ActionData(c, g, 0)] :
        c \in CardLists, g \in Guests}
    \cup {[action_type |-> t, action_data |-> NoData] :
        t \in {"RECALL_CARDS", "SHUFFLE_DECK", "DRAW_CARD"}}
    \cup {[action_type |-> "DEAL_CARDS", action_data |-> ActionData(<<>>, None, n)] :
        n \in DealCounts}

Init ==
    /\ db = [r \in RoomIds |-> <<>>]
    /\ session = [g \in Guests |-> NoSession]
    /\ sio_rooms = [r \in RoomIds |-> {}]
    /\ inflight = [g \in Guests |-> <<>>]
    /\ successes = [r \in RoomIds |-> 0]
    /\ sweep = <<>>
    /\ last = Done("init", None, None, None, TRUE, 0, <<>>)

(***************************************************************************)
(* Request path (app/api/v1/endpoints/rooms.py).  The caller is the guest  *)
(* of a verified token.                                                    *)
(***************************************************************************)
\* POST /rooms: the generator returns a code no room uses
CreateRoom(g, room_id, settings) ==
    /\ db[room_id] = <<>>
    /\ LET room == Room(g, <<PlayerInRoom(g, None, TRUE)>>, settings)
       IN  /\ db' = [db EXCEPT ![room_id] = <<room>>]
           /\ last' = Done("create_room", g, room_id, None, TRUE, 1,
                           <<Emit("gameStateUpdate", None, None, None, <<room>>)>>)
    /\ UNCHANGED <<sweep, session, sio_rooms, inflight, successes>>

\* POST /rooms/{id}/join
JoinRoomHttp(g, room_id) ==
    /\ LET res == add_player_to_room(db, room_id, PlayerInRoom(g, None, FALSE))
       IN  /\ db' = res.db
           /\ last' = IF db[room_id] = <<>> \/ res.ret = <<>>
                      THEN Done("join_room_http", g, room_id, None, FALSE, 0, <<>>)
                      ELSE Done("join_room_http", g, room_id, None, TRUE, 1,
                                <<Emit("gameStateUpdate", None, None, None, res.ret)>>)
    /\ UNCHANGED <<sweep, session, sio_rooms, inflight, successes>>

\* POST /rooms/{id}/toggle-ready
ToggleReady(g, room_id) ==
    /\ LET res == toggle_player_ready(db, room_id, g)
       IN  /\ db' = res.db
           /\ last' = IF res.ret = <<>>
                      THEN Done("toggle_ready", g, room_id, None, FALSE, 0, <<>>)
                      ELSE Done("toggle_ready", g, room_id, None, TRUE, 1,
                                <<Emit("gameStateUpdate", None, None, None, res.ret)>>)
    /\ UNCHANGED <<sweep, session, sio_rooms, inflight, successes>>

\* whether POST /rooms/{id}/start lets the caller through to crud_room.start_game
MayStartHttp(room, g) ==
    /\ room.host_id = g
    /\ \A i \in 1..Len(room.players) : room.players[i].is_ready

\* POST /rooms/{id}/start
StartGameHttp(g, room_id) ==
    /\ \E res \in (IF db[room_id] # <<>> /\ MayStartHttp(db[room_id][1], g)
                   THEN start_game(db, room_id) ELSE {StoreResult(db, <<>>)}) :
          /\ db' = res.db
          /\ successes' = IF res.ret = <<>> THEN successes
                          ELSE [successes EXCEPT ![room_id] = 0]
          /\ last' = IF res.ret = <<>>
                     THEN Done("start_game_http", g, room_id, None, FALSE, 0, <<>>)
                     ELSE Done("start_game_http", g, room_id, None, TRUE, 1,
                               <<Emit("gameStateUpdate", None, room_id, None, res.ret)>>)
    /\ UNCHANGED <<sweep, session, sio_rooms, inflight>>

\* POST /rooms/{id}/restart
RestartGame(g, room_id) ==
    /\ \E res \in (IF db[room_id] # <<>> /\ db[room_id][1].host_id = g
                   THEN restart_game(db, room_id) ELSE {StoreResult(db, <<>>)}) :
          /\ db' = res.db
          /\ successes' = IF res.ret = <<>> THEN successes
                          ELSE [successes EXCEPT ![room_id] = 0]
          /\ last' = IF res.ret = <<>>
                     THEN Done("restart_game", g, room_id, None, FALSE, 0, <<>>)
                     ELSE Done("restart_game", g, room_id, None, TRUE, 1,
                               <<Emit("gameStateUpdate", None, room_id, None, res.ret)>>)
    /\ UNCHANGED <<sweep, session, sio_rooms, inflight>>

\* POST /rooms/{id}/leave: 204 whether or not the room exists
LeaveRoomHttp(g, room_id) ==
    /\ LET res == remove_player_from_room(db, room_id, g)
       IN  /\ db' = res.db
           /\ last' = IF res.ret = <<>>
                      THEN Done("leave_room_http", g, room_id, None, TRUE, 0, <<>>)
                      ELSE Done("leave_room_http", g, room_id, None, TRUE, 1,
                                <<Emit("gameStateUpdate", None, None, None, res.ret)>>)
    /\ UNCHANGED <<sweep, session, sio_rooms, inflight, successes>>

(***************************************************************************)
(* Real-time path (app/websocket/game_event_handler.py).  The sid of a     *)
(* guest's connection is SidOf(guest).                                     *)
(***************************************************************************)
\* connect with a valid token: save_session(sid, {guest_id, nickname})
Connect(g) ==
    /\ ~session[g].connected
    /\ session' = [session EXCEPT ![g] = [connected |-> TRUE, joined_rooms |-> <<>>]]
    /\ last' = Done("connect", g, None, None, TRUE, 0, <<>>)
    /\ UNCHANGED <<sweep, db, sio_rooms, inflight, successes>>

\* a loop that ends at the first room whose removal answers None
RECURSIVE AutoLeaveUntilFailure(_, _, _, _)
AutoLeaveUntilFailure(store, rooms, g, failing) ==
    IF rooms = <<>> THEN [db |-> store, writes |-> 0, emits |-> <<>>]
    ELSE LET room_id_to_leave == Head(rooms)
             removed == IF room_id_to_leave = failing THEN StoreResult(store, <<>>)
                        ELSE remove_player_from_room(store, room_id_to_leave, g)
         IN  IF removed.ret = <<>> THEN [db |-> store, writes |-> 0, emits |-> <<>>]
             ELSE LET refreshed == update_room(removed.db, room_id_to_leave,
                                               Touched(removed.ret[1]))
                      rest == AutoLeaveUntilFailure(refreshed.db, Tail(rooms), g, failing)
                  IN  [db |-> rest.db,
                       writes |-> 2 + rest.writes,
                       emits |-> <<Emit("playerLeft", None, room_id_to_leave, SidOf(g),
                                        [guest_id |-> g])>> \o rest.emits]

\* the loop of handle_disconnect over list(joined_rooms_list); the store
\* call for the room named failing raises, which remove_player_from_room
\* catches and answers with None
RECURSIVE AutoLeave(_, _, _, _)
AutoLeave(store, rooms, g, failing) ==
    IF rooms = <<>> THEN [db |-> store, writes |-> 0, emits |-> <<>>]
    ELSE LET room_id_to_leave == Head(rooms)
             removed == IF room_id_to_leave = failing THEN StoreResult(store, <<>>)
                        ELSE remove_player_from_room(store, room_id_to_leave, g)
         IN  IF removed.ret = <<>> THEN AutoLeave(store, Tail(rooms), g, failing)
             ELSE LET refreshed == update_room(removed.db, room_id_to_leave,
                                               Touched(removed.ret[1]))
                      rest == AutoLeave(refreshed.db, Tail(rooms), g, failing)
                  IN  [db |-> rest.db,
                       writes |-> 2 + rest.writes,
                       emits |-> <<Emit("playerLeft", None, room_id_to_leave, SidOf(g),
                                        [guest_id |-> g])>> \o rest.emits]

\* the loop when no store call raises
DisconnectLoop(store, rooms, g) == AutoLeave(store, rooms, g, None)

\* disconnect: handle_disconnect, after which the server drops the session
\* and takes the sid out of every delivery group; failing is the room whose
\* store call raises, or None
Drop(g, failing) ==
    /\ session[g].connected
    /\ inflight[g] = <<>>
    /\ LET res == AutoLeave(db, session[g].joined_rooms, g, failing)
       IN  /\ db' = res.db
           /\ last' = Done("disconnect", g, None, failing, TRUE, res.writes, res.emits)
    /\ session' = [session EXCEPT ![g] = NoSession]
    /\ sio_rooms' = [r \in RoomIds |-> sio_rooms[r] \ {SidOf(g)}]
    /\ UNCHANGED <<sweep, inflight, successes>>

\* disconnect with a store that answers every call
Disconnect(g) == Drop(g, None)

\* session['joined_rooms'] after the join handler appended room_id
JoinedAfterJoin(joined_rooms, room_id) ==
    IF Contains(joined_rooms, room_id) THEN joined_rooms ELSE Append(joined_rooms, room_id)

\* join_game_room
JoinGameRoom(g, room_id) ==
    /\ session[g].connected
    /\ sio_rooms' = [sio_rooms EXCEPT ![room_id] = @ \cup {SidOf(g)}]
    /\ session' = [session EXCEPT ![g].joined_rooms = JoinedAfterJoin(@, room_id)]
    /\ LET player_to_add == PlayerInRoom(g, SidOf(g), FALSE)
           added == add_player_to_room(db, room_id, player_to_add)
           refreshed == update_room(added.db, room_id, Touched(added.ret[1]))
       IN  IF added.ret = <<>>
           THEN /\ db' = added.db
                /\ last' = Done("join_game_room", g, room_id, None, FALSE, 0,
                                <<Emit("error", SidOf(g), None, None,
                                       [message |-> "Failed to join room"])>>)
           ELSE /\ db' = refreshed.db
                /\ last' = Done("join_game_room", g, room_id, None, TRUE, 2,
                                <<Emit("gameStateUpdate", SidOf(g), None, None,
                                       get_room_by_id(added.db, room_id)),
                                  Emit("playerJoined", None, room_id, SidOf(g),
                                       player_to_add)>>)
    /\ UNCHANGED <<sweep, inflight, successes>>

\* session['joined_rooms'] after the leave handler removed room_id
JoinedAfterLeave(joined_rooms, room_id) == RemoveFirst(joined_rooms, room_id)

\* leave_game_room
LeaveGameRoom(g, room_id) ==
    /\ session[g].connected
    /\ sio_rooms' = [sio_rooms EXCEPT ![room_id] = @ \ {SidOf(g)}]
    /\ session' = [session EXCEPT ![g].joined_rooms = JoinedAfterLeave(@, room_id)]
    /\ last' = Done("leave_game_room", g, room_id, None, TRUE, 0, <<>>)
    /\ UNCHANGED <<sweep, db, inflight, successes>>

\* the checks of handle_start_game on the room it loaded
ValidateStartWs(room_opt, g) ==
    IF room_opt = <<>> THEN "Room not found"
    ELSE IF room_opt[1].host_id # g THEN "Only the host can perform this action"
    ELSE IF room_opt[1].status = "active" THEN "Game already started"
    ELSE IF Len(room_opt[1].players) < 2 THEN "At least 2 players are required to start"
    ELSE OK

\* a start that sets the room status and nothing else
StatusOnlyStartedRooms(room) == {[room EXCEPT !.status = "active"]}

\* the rooms handle_start_game can build from the room it loaded: the new
\* game state has no turn order, so no initial turn is set
StartedRoomsWs(room) ==
    {[room EXCEPT !.status = "active", !.game_state = <<game_state>>,
                  !.last_activity = Now] :
        game_state \in initialize_game_state(room.settings)}

\* the events of an except branch: one <event>_failed to the sender
FailureEmits(event, sid, room_id, error_msg) ==
    <<Emit(event, sid, None, None, [room_id |-> room_id, error |-> error_msg])>>

\* start_game
StartGameWs(g, room_id) ==
    /\ session[g].connected
    /\ LET error == ValidateStartWs(get_room_by_id(db, room_id), g)
       IN  IF error # OK
           THEN /\ db' = db
                /\ successes' = successes
                /\ last' = Done("start_game", g, room_id, None, FALSE, 0,
                                FailureEmits("start_game_failed", SidOf(g), room_id, error))
           ELSE \E room \in StartedRoomsWs(db[room_id][1]) :
                /\ db' = update_room(db, room_id, room).db
                /\ successes' = [successes EXCEPT ![room_id] = 0]
                /\ last' = Done("start_game", g, room_id, None, TRUE, 1,
                                <<Emit("gameStateUpdate", None, room_id, None, <<room>>)>>)
    /\ UNCHANGED <<sweep, session, sio_rooms, inflight>>

\* a turn advance that moves the index on and leaves the turn-holder as it is
AdvanceIndexOnly(room) ==
    LET gs == GS(room)
    IN  IF gs.turn_order = <<>> THEN room
        ELSE [room EXCEPT !.game_state = <<[gs EXCEPT
                 !.current_player_index = (gs.current_player_index + 1) % Len(gs.turn_order),
                 !.turn_number = gs.turn_number + 1]>>]

\* the turn advance of handle_player_action
AdvanceTurn(room) ==
    LET gs == GS(room)
    IN  IF gs.turn_order = <<>> THEN room
        ELSE LET current_index == IF gs.current_player_index = NoneIdx
                                  THEN 0 ELSE gs.current_player_index
                 next_index == (current_index + 1) % Len(gs.turn_order)
             IN  [room EXCEPT !.game_state = <<[gs EXCEPT
                     !.current_player_index = next_index,
                     !.current_turn_guest_id = gs.turn_order[next_index + 1],
                     !.turn_number = gs.turn_number + 1]>>]

\* a dispatcher that lets only the turn-holder act
ValidateRequestOfHolder(room_opt, g, action_type) ==
    IF room_opt = <<>> THEN "Room not found"
    ELSE IF ~InRoom(room_opt[1].players, g) THEN "Player not in room"
    ELSE IF room_opt[1].status # "active" \/ room_opt[1].game_state = <<>>
         THEN "Game not in progress"
    ELSE IF GS(room_opt[1]).current_turn_guest_id \notin {None, g} THEN "Not your turn"
    ELSE IF action_classes(action_type) = None THEN "Unknown action type"
    ELSE OK

\* the error that stops handle_player_action before validate_action, if any
ValidateRequest(room_opt, g, action_type) ==
    IF room_opt = <<>> THEN "Room not found"
    ELSE IF ~InRoom(room_opt[1].players, g) THEN "Player not in room"
    ELSE IF room_opt[1].status # "active" \/ room_opt[1].game_state = <<>>
         THEN "Game not in progress"
    ELSE IF action_classes(action_type) = None THEN "Unknown action type"
    ELSE OK

\* what handle_player_action makes of the room it loaded: the error it
\* raises, or the rooms it can hand to update_room
ActionOutcomes(room_opt, g, input) ==
    LET early == ValidateRequest(room_opt, g, input.action_type)
        room == room_opt[1]
        cls == action_classes(input.action_type)
        player_index == PlayerIndex(room.players, g)
        error == IF early # OK THEN early
                 ELSE validate_action(cls, input.action_data, player_index, room)
    IN  IF error # OK THEN {[error |-> error, room |-> <<>>]}
        ELSE {[error |-> OK, room |-> <<AdvanceTurn(r)>>] :
                 r \in apply(cls, input.action_data, player_index, room)}

\* handle_player_action from the point where the room was loaded as room_opt
FinishAction(g, room_id, input, room_opt) ==
    \E out \in ActionOutcomes(room_opt, g, input) :
        LET written == update_room(db, room_id, Touched(out.room[1]))
            error == IF out.error # OK THEN out.error
                     ELSE IF written.ret = <<>> THEN "'NoneType' object has no attribute 'room_id'"
                     ELSE OK
        IN  IF error # OK
            THEN /\ db' = db
                 /\ successes' = successes
                 /\ last' = Done("player_action", g, room_id, input.action_type, FALSE, 0,
                                 FailureEmits("player_action_failed", SidOf(g), room_id, error))
            ELSE /\ successes[room_id] < MaxActions
                 /\ db' = written.db
                 /\ successes' = [successes EXCEPT ![room_id] = @ + 1]
                 /\ last' = Done("player_action", g, room_id, input.action_type, TRUE, 1,
                                 <<Emit("gameStateUpdate", None, room_id, None, written.ret)>>)

\* playerAction, handled without another handler running in between
PlayerAction(g, room_id, input) ==
    /\ session[g].connected
    /\ inflight[g] = <<>>
    /\ FinishAction(g, room_id, input, get_room_by_id(db, room_id))
    /\ UNCHANGED <<sweep, session, sio_rooms, inflight>>

(***************************************************************************)
(* The periodic sweep (app/background/cleanup.py), which awaits the store  *)
(* at each query and each delete; sweep holds its place between them.      *)
(***************************************************************************)
Sweeping(phase, pending) == [phase |-> phase, pending |-> pending]

\* empty_rooms = await get_rooms_with_no_players()
SweepQueryEmpty ==
    /\ sweep = <<>>
    /\ \E empty_rooms \in get_rooms_with_no_players(db) :
          sweep' = <<Sweeping("empty", empty_rooms)>>
    /\ UNCHANGED <<db, session, sio_rooms, inflight, successes, last>>

\* inactive_rooms = await get_rooms_inactive_since(threshold), once the loop
\* over empty_rooms has ended; the task returns when the list is empty
SweepQueryInactive ==
    /\ sweep # <<>>
    /\ sweep[1].phase = "empty"
    /\ sweep[1].pending = <<>>
    /\ \E inactive_rooms \in get_rooms_inactive_since(db) :
          sweep' = IF inactive_rooms = <<>> THEN <<>>
                   ELSE <<Sweeping("inactive", inactive_rooms)>>
    /\ UNCHANGED <<db, session, sio_rooms, inflight, successes, last>>

\* await delete_room(room.room_id) for the next room of either loop; the
\* task returns after the last delete of the second loop
SweepDelete ==
    /\ sweep # <<>>
    /\ sweep[1].pending # <<>>
    /\ LET room_id == Head(sweep[1].pending)
           res == delete_room(db, room_id)
           rest == Tail(sweep[1].pending)
       IN  /\ db' = res.db
           /\ sweep' = IF rest = <<>> /\ sweep[1].phase = "inactive" THEN <<>>
                       ELSE <<Sweeping(sweep[1].phase, rest)>>
           /\ last' = Done("delete_room", None, room_id, sweep[1].phase, res.ret,
                           IF res.ret THEN 1 ELSE 0, <<>>)
    /\ UNCHANGED <<session, sio_rooms, inflight, successes>>

\* sixty minutes go by in which no handler runs: every stored last_activity
\* falls out of the window
WindowPasses ==
    /\ sweep = <<>>
    /\ \A g \in Guests : inflight[g] = <<>>
    /\ \E r \in RoomIds : db[r] # <<>> /\ db[r][1].last_activity = Now
    /\ db' = [r \in RoomIds |->
                IF db[r] = <<>> THEN <<>> ELSE <<[db[r][1] EXCEPT !.last_activity = Expired]>>]
    /\ last' = Done("window_passes", None, None, None, TRUE, 0, <<>>)
    /\ UNCHANGED <<session, sio_rooms, inflight, successes, sweep>>

(***************************************************************************)
(* Play in one room, every handler run to completion before the next       *)
(* starts.  Every guest holds a connection; A creates the room, B joins it *)
(* over the request path and C stays outside.                              *)
(***************************************************************************)
Members == {"A", "B"}

GameSettings == RoomSettings(1, FALSE, 2, 1)

\* what each guest sends: the members anything, the outsider one recall
InputsOf(g) ==
    IF g \in Members THEN ActionInputs
    ELSE {[action_type |-> "RECALL_CARDS", action_data |-> NoData]}

\* every guest connected (C last), no room created yet
InitConnected ==
    /\ db = [r \in RoomIds |-> <<>>]
    /\ session = [g \in Guests |-> [connected |-> TRUE, joined_rooms |-> <<>>]]
    /\ sio_rooms = [r \in RoomIds |-> {}]
    /\ inflight = [g \in Guests |-> <<>>]
    /\ successes = [r \in RoomIds |-> 0]
    /\ sweep = <<>>
    /\ last = Done("connect", "C", None, None, TRUE, 0, <<>>)

Next ==
    \/ \E r \in Lobby : CreateRoom("A", r, GameSettings)
    \/ \E r \in Lobby : JoinRoomHttp("B", r)
    \/ \E r \in Lobby : ToggleReady("B", r)
    \/ \E r \in Lobby : StartGameHttp("A", r)
    \/ \E r \in Lobby : StartGameWs("A", r)
    \/ \E g \in Guests, r \in Lobby : \E input \in InputsOf(g) : PlayerAction(g, r, input)

Spec == InitConnected /\ [][Next]_vars

(***************************************************************************)
(* Membership of one room over the request path: A and B join and leave,   *)
(* start the game and play it, every handler run to completion before the  *)
(* next starts.                                                            *)
(***************************************************************************)
\* the playerAction events sent while membership changes
RoomInputs ==
    {[action_type |-> "PLAY_CARDS", action_data |-> ActionData(<<c>>, None, 0)] :
        c \in AllCards}
    \cup {[action_type |-> "SHUFFLE_DECK", action_data |-> NoData]}

NextRoom ==
    \/ \E r \in Lobby : CreateRoom("A", r, GameSettings)
    \/ \E g \in Members, r \in Lobby : JoinRoomHttp(g, r)
    \/ \E g \in Members, r \in Lobby : ToggleReady(g, r)
    \/ \E g \in Members, r \in Lobby : StartGameHttp(g, r)
    \/ \E g \in Members, r \in Lobby : LeaveRoomHttp(g, r)
    \/ \E g \in Members, r \in Lobby, input \in RoomInputs : PlayerAction(g, r, input)

SpecRoom == InitConnected /\ [][NextRoom]_vars

(***************************************************************************)
(* Membership of one room over the real-time path: the guests connect and  *)
(* disconnect, join and leave the room A created, and A starts the game,   *)
(* every handler run to completion before the next starts.                 *)
(***************************************************************************)
NextSession ==
    \/ \E r \in Lobby : CreateRoom("A", r, GameSettings)
    \/ \E g \in Guests : Connect(g)
    \/ \E g \in Guests : Disconnect(g)
    \/ \E g \in Guests, r \in Lobby : JoinGameRoom(g, r)
    \/ \E g \in Guests, r \in Lobby : LeaveGameRoom(g, r)
    \/ \E r \in Lobby : StartGameWs("A", r)

SpecSession == Init /\ [][NextSession]_vars

(***************************************************************************)
(* Handlers that interleave at their awaits.  A request suspended between  *)
(* the store read and the store write of its handler is kept in inflight   *)
(* with the document it read; other handlers run in between.               *)
(***************************************************************************)
Suspended(op, room_id, input, room_opt) ==
    [op |-> op, room_id |-> room_id, input |-> input, room |-> room_opt]

\* join_room_http up to the find_one of add_player_to_room.  The request
\* ends before that read when the room is missing (404) or the guest is in
\* the list already (sid refresh).
JoinRead(g, room_id) ==
    /\ inflight[g] = <<>>
    /\ IF db[room_id] = <<>> \/ InRoom(db[room_id][1].players, g)
       THEN JoinRoomHttp(g, room_id)
       ELSE /\ inflight' = [inflight EXCEPT ![g] =
                    <<Suspended("join_room_http", room_id,
                                PlayerInRoom(g, None, FALSE), db[room_id])>>]
            /\ UNCHANGED <<sweep, db, session, sio_rooms, successes, last>>

\* join_room_http from the capacity check of add_player_to_room on
JoinWrite(g) ==
    /\ inflight[g] # <<>>
    /\ inflight[g][1].op = "join_room_http"
    /\ LET req == inflight[g][1]
           res == add_player_after_read(db, req.room_id, req.input, req.room[1])
       IN  /\ db' = res.db
           /\ last' = IF res.ret = <<>>
                      THEN Done("join_room_http", g, req.room_id, None, FALSE, 0, <<>>)
                      ELSE Done("join_room_http", g, req.room_id, None, TRUE,
                                IF res.db = db THEN 0 ELSE 1,
                                <<Emit("gameStateUpdate", None, None, None, res.ret)>>)
    /\ inflight' = [inflight EXCEPT ![g] = <<>>]
    /\ UNCHANGED <<sweep, session, sio_rooms, successes>>

\* handle_player_action up to the return of _get_room
ActionLoad(g, room_id, input) ==
    /\ session[g].connected
    /\ inflight[g] = <<>>
    /\ inflight' = [inflight EXCEPT ![g] =
            <<Suspended("player_action", room_id, input, get_room_by_id(db, room_id))>>]
    /\ UNCHANGED <<sweep, db, session, sio_rooms, successes, last>>

\* handle_player_action from the membership check on, on the room it loaded
ActionCommit(g) ==
    /\ inflight[g] # <<>>
    /\ inflight[g][1].op = "player_action"
    /\ FinishAction(g, inflight[g][1].room_id, inflight[g][1].input, inflight[g][1].room)
    /\ inflight' = [inflight EXCEPT ![g] = <<>>]
    /\ UNCHANGED <<sweep, session, sio_rooms>>

(***************************************************************************)
(* Actions that race: A creates the room, B joins, A starts the game over  *)
(* the request path and both play, their playerAction handlers suspended   *)
(* between the load and the write of the room.                             *)
(***************************************************************************)
\* the members of a started game play single cards
ConcInputs ==
    {[action_type |-> "PLAY_CARDS", action_data |-> ActionData(<<c>>, None, 0)] :
        c \in AllCards}

NextConc ==
    \/ \E r \in Lobby : CreateRoom("A", r, GameSettings)
    \/ \E r \in Lobby : JoinRoomHttp("B", r)
    \/ \E r \in Lobby : ToggleReady("B", r)
    \/ \E r \in Lobby : StartGameHttp("A", r)
    \/ \E g \in Members, r \in Lobby, input \in ConcInputs : ActionLoad(g, r, input)
    \/ \E g \in Members : ActionCommit(g)

SpecConc == InitConnected /\ [][NextConc]_vars

(***************************************************************************)
(* Joins that race: A creates the room, B and C join and leave it over the *)
(* request path, the joins suspended between the read and the write of     *)
(* add_player_to_room.                                                     *)
(***************************************************************************)
Joiners == {"B", "C"}

NextJoin ==
    \/ \E r \in Lobby : CreateRoom("A", r, GameSettings)
    \/ \E g \in Joiners, r \in Lobby : JoinRead(g, r)
    \/ \E g \in Joiners : JoinWrite(g)
    \/ \E g \in Guests, r \in Lobby : LeaveRoomHttp(g, r)

SpecJoin == InitConnected /\ [][NextJoin]_vars

(***************************************************************************)
(* Properties of play.                                                     *)
(***************************************************************************)
\* every card of a started room, wherever it lies
CardsOf(room) ==
    GS(room).deck
    \o Flatten([i \in 1..Len(room.players) |-> room.players[i].hand])
    \o Flatten(GS(room).table)
    \o GS(room).discard_pile

\* the room holds each card of its configured deck exactly as often as the
\* deck does, and no other card
Conserved(room) ==
    \A c \in AllCards \cup Range(CardsOf(room)) :
        Count(CardsOf(room), c) = Count(_create_deck(room.settings), c)

\* the step was a playerAction on room r that the handler reported as done
ActionSucceeded(r) ==
    last'.op = "player_action" /\ last'.room_id = r /\ last'.ok

\* C1: card conservation.  A successful player action on a started room
\* that holds exactly its configured deck, spread over the deck, the hands,
\* the table piles and the discard pile, leaves it holding exactly that
\* deck: no card is duplicated or lost, whatever card list the action
\* carried.
CardConservation ==
    [][\A r \in RoomIds :
          (/\ ActionSucceeded(r)
           /\ db[r] # <<>> /\ db[r][1].game_state # <<>>
           /\ Conserved(db[r][1]))
          => Conserved(db'[r][1])]_vars

\* C3: recall exclusivity.  When the last-action record names a player,
\* a recall sent by any other player is rejected and the room document
\* stays as it was.
RecallExclusivity ==
    [][\A r \in RoomIds :
          (/\ last'.op = "player_action" /\ last'.room_id = r
           /\ last'.arg = "RECALL_CARDS"
           /\ db[r] # <<>> /\ db[r][1].game_state # <<>>
           /\ GS(db[r][1]).last_player_id \notin {None, last'.guest})
          => (~last'.ok /\ db'[r] = db[r])]_vars

\* the step left the store alone and sent one player_action_failed event,
\* with the room id and an error text, to the sender's connection only
FailedQuietly ==
    /\ db' = db
    /\ last'.writes = 0
    /\ Len(last'.emits) = 1
    /\ last'.emits[1].event = "player_action_failed"
    /\ last'.emits[1].to = SidOf(last'.guest)
    /\ last'.emits[1].room = None
    /\ DOMAIN last'.emits[1].data = {"room_id", "error"}
    /\ last'.emits[1].data.room_id = last'.room_id
    /\ last'.emits[1].data.error \notin {OK, None, ""}

\* a reason for which the dispatcher has to turn the request down
ReasonToFail(room, g, input) ==
    LET cards == input.action_data.cards
        hand == room.players[PlayerIndex(room.players, g)].hand
    IN  \/ room.status # "active"
        \/ ~InRoom(room.players, g)
        \/ input.action_type \notin {"PLAY_CARDS", "DISCARD_CARDS", "RECALL_CARDS",
                                      "MOVE_CARD_TO_PLAYER", "SHUFFLE_DECK", "DEAL_CARDS"}
        \/ /\ input.action_type \in {"PLAY_CARDS", "DISCARD_CARDS", "MOVE_CARD_TO_PLAYER"}
           /\ \E i \in 1..Len(cards) : ~Contains(hand, cards[i])
        \/ /\ input.action_type \in {"SHUFFLE_DECK", "DEAL_CARDS"}
           /\ room.host_id # g
        \/ /\ input.action_type = "MOVE_CARD_TO_PLAYER"
           /\ ~InRoom(room.players, input.action_data.target_player_id)

\* the handler raises on this request whatever it draws
Rejects(room_opt, g, input) ==
    \A out \in ActionOutcomes(room_opt, g, input) : out.error # OK

\* C7: a failed action has no side effects.  A request with a reason to
\* fail (game not active, sender not a member, unknown action type, a card
\* the sender does not hold, a host-only action from a non-host, an unknown
\* target) is rejected, and a rejected request writes nothing to the store,
\* broadcasts nothing to the room and sends exactly one error event, with
\* the room id and the error text, to the sender's connection.
FailedActionHasNoSideEffects ==
    /\ [](\A r \in RoomIds, g \in Guests :
             \A input \in ActionInputs :
                (db[r] # <<>> /\ ReasonToFail(db[r][1], g, input))
                => Rejects(db[r], g, input))
    /\ [][(last'.op = "player_action" /\ ~last'.ok) => FailedQuietly]_vars

\* a member of a started game was just refused a card the member does not hold
CardNotOwnedRefused ==
    /\ last.op = "player_action" /\ ~last.ok
    /\ last.emits[1].data.error = "Player does not have all of these cards"
    /\ db[last.room_id] # <<>>
    /\ db[last.room_id][1].status = "active"
    /\ InRoom(db[last.room_id][1].players, last.guest)

(***************************************************************************)
(* Properties of membership.                                               *)
(***************************************************************************)
\* C5: host invariant.  Every stored room either has no players or has a
\* host_id that is the guest id of one of its players, also after a guest
\* joined a room its last player had left.
HostInvariant ==
    \A r \in RoomIds :
        db[r] # <<>> =>
            \/ db[r][1].players = <<>>
            \/ InRoom(db[r][1].players, db[r][1].host_id)

\* the step took the host of room r out of its player list
HostRemoved(r) ==
    /\ db[r] # <<>> /\ db'[r] # <<>>
    /\ InRoom(db[r][1].players, db[r][1].host_id)
    /\ ~InRoom(db'[r][1].players, db[r][1].host_id)

\* C6: host reassignment.  When a step removes the host, the players that
\* remain keep their order, the first of them becomes the host, and if none
\* remains the room is left with no players and no host.
HostReassignment ==
    [][\A r \in RoomIds :
          HostRemoved(r) =>
             /\ guest_ids(db'[r][1].players)
                  = RemoveFirst(guest_ids(db[r][1].players), db[r][1].host_id)
             /\ db'[r][1].players # <<>>
                  => db'[r][1].host_id = db'[r][1].players[1].guest_id
             /\ db'[r][1].players = <<>> => db'[r][1].host_id \notin Guests]_vars

\* C9: no dangling turn-holder.  The turn pointer of a stored game names
\* nobody or a guest of the room's current player list.
NoDanglingTurnHolder ==
    \A r \in RoomIds :
        (db[r] # <<>> /\ db[r][1].game_state # <<>>) =>
            \/ GS(db[r][1]).current_turn_guest_id = None
            \/ InRoom(db[r][1].players, GS(db[r][1]).current_turn_guest_id)

\* C10: explicit leave.  A leave_game_room from a guest who joined room r
\* in real time and is in its stored player list takes the guest out of the
\* list, leaves the room with a host among its players if any remain, and
\* sends a playerLeft event to the room's other connections.
ExplicitLeaveRemoves ==
    [][\A r \in RoomIds :
          (/\ last'.op = "leave_game_room" /\ last'.room_id = r
           /\ Contains(session[last'.guest].joined_rooms, r)
           /\ db[r] # <<>> /\ InRoom(db[r][1].players, last'.guest))
          => /\ db'[r] # <<>>
             /\ ~InRoom(db'[r][1].players, last'.guest)
             /\ db'[r][1].players # <<>>
                  => InRoom(db'[r][1].players, db'[r][1].host_id)
             /\ \E i \in 1..Len(last'.emits) :
                   /\ last'.emits[i].event = "playerLeft"
                   /\ last'.emits[i].room = r
                   /\ last'.emits[i].skip_sid = SidOf(last'.guest)]_vars

(***************************************************************************)
(* Properties of interleaved handlers.                                     *)
(***************************************************************************)
\* C2: concurrency.  Mutations of one room are serialized: the document a
\* successful player action stores is that action applied to the document
\* the store held when it wrote, so that no mutation stored in between is
\* overwritten.
MutationsSerialized ==
    [][\A r \in RoomIds, g \in Guests :
          (ActionSucceeded(r) /\ last'.guest = g /\ inflight[g] # <<>>)
          => \E out \in ActionOutcomes(db[r], g, inflight[g][1].input) :
                out.error = OK /\ db'[r] = out.room]_vars

\* C4: turn rotation.  In a game started with the turn order p0..p(P-1),
\* after N successful player actions the turn index is N mod P, the turn
\* counter is N and the turn-holder is the guest at that index of the
\* order.
TurnRotation ==
    \A r \in RoomIds :
        (db[r] # <<>> /\ db[r][1].game_state # <<>>
         /\ GS(db[r][1]).turn_order # <<>>) =>
            LET gs == GS(db[r][1])
                P == Len(gs.turn_order)
                N == successes[r]
            IN  /\ gs.turn_number = N
                /\ gs.current_player_index = N % P
                /\ gs.current_turn_guest_id = gs.turn_order[(N % P) + 1]

\* C8: room capacity.  No stored room lists more players than its
\* max_players setting, also when joins race for the last slot.
RoomCapacity ==
    \A r \in RoomIds :
        db[r] # <<>> => Len(db[r][1].players) <= db[r][1].settings.max_players

(***************************************************************************)
(* A connection in two rooms: A creates the rooms, B joins them over the   *)
(* real-time path and drops, possibly while the store fails for one room,  *)
(* and the sweep deletes rooms whose activity window has passed.           *)
(***************************************************************************)
NextDrop ==
    \/ \E r \in RoomIds : CreateRoom("A", r, GameSettings)
    \/ \E r \in RoomIds : JoinGameRoom("B", r)
    \/ \E failing \in RoomIds \cup {None} : Drop("B", failing)
    \/ Connect("B")
    \/ WindowPasses
    \/ SweepQueryEmpty
    \/ SweepQueryInactive
    \/ SweepDelete

SpecDrop == InitConnected /\ [][NextDrop]_vars

\* C11: when a connection drops, its guest is removed from every room of
\* its joined_rooms that is still stored, except a room whose store call
\* raised; a missing or failing room does not stop the loop
DisconnectLeavesEveryRoom ==
    [][\A g \in Guests :
         (last'.op = "disconnect" /\ last'.guest = g /\ session[g].connected
            /\ ~session'[g].connected)
         => \A r \in Range(session[g].joined_rooms) :
              (r # last'.arg /\ db[r] # <<>>)
              => (db'[r] # <<>> /\ ~InRoom(db'[r][1].players, g))]_vars

\* B dropped while the store failed for r1: B is still listed in r1 and was
\* taken out of r2
DroppedPastFailingRoom ==
    /\ last.op = "disconnect"
    /\ last.arg = "r1"
    /\ last.writes = 2
    /\ db["r1"] # <<>> /\ InRoom(db["r1"][1].players, "B")
    /\ db["r2"] # <<>> /\ ~InRoom(db["r2"][1].players, "B")

(***************************************************************************)
(* Start and restart over the request path: A creates a room of up to      *)
(* three players with a deal count of one or two, B and C join, the        *)
(* players toggle ready, start (on either path), restart and play.         *)
(***************************************************************************)
StartSettings == {RoomSettings(1, FALSE, 3, d) : d \in DealCounts}

\* the playerAction events sent between starts
StartInputs ==
    {[action_type |-> "PLAY_CARDS", action_data |-> ActionData(<<c>>, None, 0)] :
        c \in AllCards}
    \cup {[action_type |-> "DEAL_CARDS", action_data |-> ActionData(<<>>, None, n)] :
        n \in DealCounts}

NextStart ==
    \/ \E r \in Lobby, settings \in StartSettings : CreateRoom("A", r, settings)
    \/ \E g \in Joiners, r \in Lobby : JoinRoomHttp(g, r)
    \/ \E g \in Guests, r \in Lobby : ToggleReady(g, r)
    \/ \E g \in Members, r \in Lobby : StartGameHttp(g, r)
    \/ \E g \in Members, r \in Lobby : RestartGame(g, r)
    \/ \E g \in Members, r \in Lobby : StartGameWs(g, r)
    \/ \E g \in Members, r \in Lobby, input \in StartInputs : PlayerAction(g, r, input)

SpecStart == InitConnected /\ [][NextStart]_vars

(***************************************************************************)
(* Properties of start and restart.                                        *)
(***************************************************************************)
\* host, at least two players, every player ready
MayStart(room, g) ==
    /\ room.host_id = g
    /\ Len(room.players) >= 2
    /\ \A i \in 1..Len(room.players) : room.players[i].is_ready

\* C13: a start, on the request path or the real-time path, succeeds only
\* when the caller is the host of a room with at least two players who are
\* all ready, and a start that is refused leaves the stored room as it was
StartPreconditions ==
    [][\A r \in RoomIds :
         (last' # last /\ last'.op \in {"start_game_http", "start_game"} /\ last'.room_id = r)
         => IF last'.ok
            THEN db[r] # <<>> /\ MayStart(db[r][1], last'.guest)
            ELSE db'[r] = db[r]]_vars

\* the number of cards the initial deal asks for, and the size of the deck
DealDemand(room) == Len(room.players) * room.settings.initial_deal_count
DeckSize(room) == Len(_create_deck(room.settings))

\* the shape start_game gives the room stored before as before: active,
\* dealt hands of the deal count, the rest in the deck, the turn at the
\* first player of the list
FreshlyStarted(before, after) ==
    /\ after.status = "active"
    /\ after.game_state # <<>>
    /\ GS(after).status = "active"
    /\ guest_ids(after.players) = guest_ids(before.players)
    /\ \A i \in 1..Len(after.players) :
          Len(after.players[i].hand) = before.settings.initial_deal_count
    /\ Len(GS(after).deck) = DeckSize(before) - DealDemand(before)
    /\ GS(after).table = <<>>
    /\ GS(after).discard_pile = <<>>
    /\ GS(after).turn_order = guest_ids(before.players)
    /\ GS(after).current_player_index = 0
    /\ GS(after).current_turn_guest_id = before.players[1].guest_id

DealSurvivesExhaustion ==
    [][\A r \in RoomIds :
         (/\ last' # last
          /\ last'.room_id = r
          /\ db[r] # <<>>
          /\ DealDemand(db[r][1]) > DeckSize(db[r][1])
          /\ \/ last'.op = "start_game_http" /\ MayStartHttp(db[r][1], last'.guest)
             \/ last'.op = "restart_game" /\ db[r][1].host_id = last'.guest)
         => (/\ last'.ok
             /\ db'[r] # <<>>
             /\ db'[r][1].game_state # <<>>
             /\ GS(db'[r][1]).deck = <<>>
             /\ \A i \in 1..Len(db'[r][1].players) :
                   Len(db'[r][1].players[i].hand) <= db[r][1].settings.initial_deal_count
             /\ Conserved(db'[r][1]))]_vars

\* the shape restart_game gives the room: a fresh start with every player
\* ready, no last play and the full card set
FreshlyRestarted(before, after) ==
    /\ FreshlyStarted(before, after)
    /\ \A i \in 1..Len(after.players) : after.players[i].is_ready
    /\ GS(after).turn_number = 0
    /\ GS(after).last_player_id = None
    /\ GS(after).last_played_or_discarded_cards = <<>>
    /\ Conserved(after)

\* C16: a restart by the host leaves the room, whatever its game state
\* was, in the shape of a fresh start with all players ready, no last play,
\* turn counter 0 and the full card set; a restart by anyone else changes
\* nothing
RestartOutcome ==
    [][\A r \in RoomIds :
         (last' # last /\ last'.op = "restart_game" /\ last'.room_id = r /\ db[r] # <<>>)
         => IF db[r][1].host_id = last'.guest
            THEN db'[r] # <<>> /\ FreshlyRestarted(db[r][1], db'[r][1])
            ELSE db'[r] = db[r] /\ ~last'.ok]_vars

\* the same for the restarts whose deal the deck can serve
RestartOutcomeWithinDeck ==
    [][\A r \in RoomIds :
         (last' # last /\ last'.op = "restart_game" /\ last'.room_id = r /\ db[r] # <<>>
            /\ DealDemand(db[r][1]) <= DeckSize(db[r][1]))
         => IF db[r][1].host_id = last'.guest
            THEN db'[r] # <<>> /\ FreshlyRestarted(db[r][1], db'[r][1])
            ELSE db'[r] = db[r] /\ ~last'.ok]_vars

\* C17: a stored room has a game state exactly when its status is not
\* waiting
GameStateIffNotWaiting ==
    \A r \in RoomIds :
        db[r] # <<>> => (db[r][1].game_state # <<>> <=> db[r][1].status # "waiting")

\* a real-time start made a waiting room active and gave it a game state
StartedOverRealTimePath ==
    /\ last.op = "start_game" /\ last.ok
    /\ db["r1"] # <<>>
    /\ db["r1"][1].status = "active"
    /\ db["r1"][1].game_state # <<>>

(***************************************************************************)
(* Joins and rejoins: A creates a room of up to three players, the guests  *)
(* join it over either path, before and after A starts the game.           *)
(***************************************************************************)
UpsertSettings == RoomSettings(1, FALSE, 3, 1)

NextUpsert ==
    \/ \E r \in Lobby : CreateRoom("A", r, UpsertSettings)
    \/ \E g \in Guests, r \in Lobby : JoinRoomHttp(g, r)
    \/ \E g \in Guests, r \in Lobby : JoinGameRoom(g, r)
    \/ \E g \in Members, r \in Lobby : ToggleReady(g, r)
    \/ \E r \in Lobby : StartGameHttp("A", r)

SpecUpsert == InitConnected /\ [][NextUpsert]_vars

\* the list after differs from the list before in the sid of record i only
OnlySidChanged(before, after, i) ==
    /\ Len(after) = Len(before)
    /\ \A k \in 1..Len(before) :
          IF k = i THEN after[k] = [before[k] EXCEPT !.sid = after[k].sid]
          ELSE after[k] = before[k]

\* the list after is the list before with one fresh record of g at its end
AppendedFresh(before, after, g) ==
    /\ Len(after) = Len(before) + 1
    /\ SubSeq(after, 1, Len(before)) = before
    /\ Last(after).guest_id = g
    /\ ~Last(after).is_ready
    /\ Last(after).hand = <<>>

\* C12: a join that succeeds changes, for a guest already listed, the sid
\* of that guest's record and nothing else in the player list, and for a
\* new guest appends one record, not ready and with an empty hand
JoinIsUpsert ==
    [][\A r \in RoomIds :
         (last' # last /\ last'.op \in {"join_room_http", "join_game_room"}
            /\ last'.room_id = r /\ last'.ok /\ db[r] # <<>>)
         => /\ db'[r] # <<>>
            /\ IF InRoom(db[r][1].players, last'.guest)
               THEN OnlySidChanged(db[r][1].players, db'[r][1].players,
                                   PlayerIndex(db[r][1].players, last'.guest))
               ELSE AppendedFresh(db[r][1].players, db'[r][1].players, last'.guest)]_vars

\* B, ready and holding a card of the started game, joined again over its
\* connection: its record has the new sid, the card and the ready flag
RejoinedWithHand ==
    /\ last.op = "join_game_room" /\ last.ok
    /\ last.guest = "B"
    /\ db["r1"] # <<>>
    /\ Len(db["r1"][1].players) = 2
    /\ db["r1"][1].players[2] =
          [guest_id |-> "B", sid |-> SidOf("B"), is_ready |-> TRUE,
           hand |-> db["r1"][1].players[2].hand]
    /\ db["r1"][1].players[2].hand # <<>>

(***************************************************************************)
(* Creates that race: POST /rooms is suspended between the lookup of       *)
(* generate_unique_room_code and insert_one, and guests join the rooms     *)
(* that exist.                                                             *)
(***************************************************************************)
\* POST /rooms up to the return of generate_unique_room_code: the loop ends
\* at a candidate no stored room uses
CreateRead(g, code, settings) ==
    /\ inflight[g] = <<>>
    /\ get_room_by_id(db, code) = <<>>
    /\ inflight' = [inflight EXCEPT ![g] =
            <<Suspended("create_room", code, settings, <<>>)>>]
    /\ UNCHANGED <<db, session, sio_rooms, successes, sweep, last>>

\* POST /rooms from crud_room.create_room on: 500 when the insert answers None
CreateInsert(g) ==
    /\ inflight[g] # <<>>
    /\ inflight[g][1].op = "create_room"
    /\ LET new_room_id == inflight[g][1].room_id
           room_to_create == Room(g, <<PlayerInRoom(g, None, TRUE)>>, inflight[g][1].input)
           res == create_room(db, new_room_id, room_to_create)
       IN  /\ db' = res.db
           /\ last' = IF res.ret = <<>>
                      THEN Done("create_room", g, new_room_id, None, FALSE, 0, <<>>)
                      ELSE Done("create_room", g, new_room_id, None, TRUE, 1,
                                <<Emit("gameStateUpdate", None, None, None, res.ret)>>)
    /\ inflight' = [inflight EXCEPT ![g] = <<>>]
    /\ UNCHANGED <<session, sio_rooms, successes, sweep>>

NextCreate ==
    \/ \E g \in Guests, code \in RoomIds : CreateRead(g, code, GameSettings)
    \/ \E g \in Guests : CreateInsert(g)
    \/ \E g \in Guests, r \in RoomIds : JoinRoomHttp(g, r)

SpecCreate == InitConnected /\ [][NextCreate]_vars

\* C18: a create whose candidate code is stored by the time of its insert
\* is refused and leaves the stored room as it is; a create whose code is
\* free stores its room, so of the creates racing for one code exactly one
\* succeeds
CreateNeverOverwrites ==
    [][\A r \in RoomIds, g \in Guests :
         (inflight[g] # <<>> /\ inflight[g][1].op = "create_room"
            /\ inflight[g][1].room_id = r /\ inflight'[g] = <<>>)
         => IF db[r] # <<>>
            THEN db'[r] = db[r] /\ ~last'.ok /\ last'.guest = g
            ELSE db'[r] # <<>> /\ db'[r][1].host_id = g /\ last'.ok]_vars

\* B and A raced for r1: A's insert came first, C joined A's room, and B's
\* insert was refused
LostTheCreateRace ==
    /\ last = Done("create_room", "B", "r1", None, FALSE, 0, <<>>)
    /\ db["r1"] # <<>>
    /\ db["r1"][1].host_id = "A"
    /\ InRoom(db["r1"][1].players, "C")

(***************************************************************************)
(* Deletion that races with handlers: A creates the room and starts the    *)
(* game, B joins and leaves, and the sweep deletes the room while a join,  *)
(* a leave, a start or a player action is suspended between its read and   *)
(* its write.                                                              *)
(***************************************************************************)
\* POST /rooms/{id}/leave up to the find_one of remove_player_from_room; the
\* request ends there (204) when the room is missing
LeaveRead(g, room_id) ==
    /\ inflight[g] = <<>>
    /\ IF db[room_id] = <<>> THEN LeaveRoomHttp(g, room_id)
       ELSE /\ inflight' = [inflight EXCEPT ![g] =
                    <<Suspended("leave_room_http", room_id, None, db[room_id])>>]
            /\ UNCHANGED <<db, session, sio_rooms, successes, sweep, last>>

\* POST /rooms/{id}/leave from the update_one of remove_player_from_room on
LeaveWrite(g) ==
    /\ inflight[g] # <<>>
    /\ inflight[g][1].op = "leave_room_http"
    /\ LET req == inflight[g][1]
           res == remove_player_after_read(db, req.room_id, g, req.room[1])
       IN  /\ db' = res.db
           /\ last' = IF res.ret = <<>>
                      THEN Done("leave_room_http", g, req.room_id, None, TRUE, 0, <<>>)
                      ELSE Done("leave_room_http", g, req.room_id, None, TRUE, 1,
                                <<Emit("gameStateUpdate", None, None, None, res.ret)>>)
    /\ inflight' = [inflight EXCEPT ![g] = <<>>]
    /\ UNCHANGED <<session, sio_rooms, successes, sweep>>

\* POST /rooms/{id}/start up to the get_room_by_id of crud_room.start_game;
\* the request ends before it when the endpoint refuses the caller
StartRead(g, room_id) ==
    /\ inflight[g] = <<>>
    /\ IF db[room_id] = <<>> \/ ~MayStartHttp(db[room_id][1], g)
       THEN StartGameHttp(g, room_id)
       ELSE /\ inflight' = [inflight EXCEPT ![g] =
                    <<Suspended("start_game_http", room_id, None, db[room_id])>>]
            /\ UNCHANGED <<db, session, sio_rooms, successes, sweep, last>>

\* POST /rooms/{id}/start from the update_one of crud_room.start_game on
StartWrite(g) ==
    /\ inflight[g] # <<>>
    /\ inflight[g][1].op = "start_game_http"
    /\ LET req == inflight[g][1]
       IN  \E res \in start_game_after_read(db, req.room_id, req.room[1]) :
             /\ db' = res.db
             /\ successes' = IF res.ret = <<>> THEN successes
                             ELSE [successes EXCEPT ![req.room_id] = 0]
             /\ last' = IF res.ret = <<>>
                        THEN Done("start_game_http", g, req.room_id, None, FALSE, 0, <<>>)
                        ELSE Done("start_game_http", g, req.room_id, None, TRUE, 1,
                                  <<Emit("gameStateUpdate", None, req.room_id, None,
                                         res.ret)>>)
    /\ inflight' = [inflight EXCEPT ![g] = <<>>]
    /\ UNCHANGED <<session, sio_rooms, sweep>>

NextDelete ==
    \/ \E r \in Lobby : CreateRoom("A", r, GameSettings)
    \/ \E r \in Lobby : JoinRead("B", r)
    \/ JoinWrite("B")
    \/ \E r \in Lobby : LeaveRead("B", r)
    \/ LeaveWrite("B")
    \/ \E r \in Lobby : StartRead("A", r)
    \/ StartWrite("A")
    \/ \E r \in Lobby, input \in ConcInputs : ActionLoad("A", r, input)
    \/ ActionCommit("A")
    \/ WindowPasses
    \/ SweepQueryEmpty
    \/ SweepQueryInactive
    \/ SweepDelete

SpecDelete == InitConnected /\ [][NextDelete]_vars

\* guest g's suspended request, which had loaded room r, resumes in this
\* step and finds r deleted
ResumesAfterDelete(g, r) ==
    /\ inflight[g] # <<>>
    /\ inflight[g][1].room_id = r
    /\ inflight[g][1].room # <<>>
    /\ inflight'[g] = <<>>
    /\ db[r] = <<>>

\* the request of g ended in a failure told to g alone, the room not stored
FailsCleanly(g, r) ==
    /\ db'[r] = <<>>
    /\ last'.guest = g
    /\ ~last'.ok
    /\ \A i \in 1..Len(last'.emits) : last'.emits[i].to = SidOf(g)

\* C19: a join, leave, start or player action that loaded a room which is
\* deleted before its write does not store the room again, reports a
\* failure to its requester and emits nothing to anyone else
DeletionRaceFailsCleanly ==
    [][\A g \in Guests, r \in RoomIds :
         ResumesAfterDelete(g, r) => FailsCleanly(g, r)]_vars

\* the same for every operation but the request-path leave
DeletionRaceFailsCleanlyButLeave ==
    [][\A g \in Guests, r \in RoomIds :
         (ResumesAfterDelete(g, r) /\ inflight[g][1].op # "leave_room_http")
         => FailsCleanly(g, r)]_vars

(***************************************************************************)
(* Properties of the sweep.                                                *)
(***************************************************************************)
\* the sweep deletes a room only when, at the delete, the room has no
\* player or its last activity lies outside the window
DeletedOnlyWhenIdle ==
    [][\A r \in RoomIds :
         (last' # last /\ last'.op = "delete_room" /\ last'.room_id = r /\ db[r] # <<>>)
         => (db[r][1].players = <<>> \/ db[r][1].last_activity = Expired)]_vars

\* the operations on a room that count as activity
TouchingOps ==
    {"join_room_http", "toggle_ready", "start_game_http", "restart_game",
     "join_game_room", "start_game", "player_action"}

\* an operation on a room that succeeds leaves the room's last activity
\* inside the window
TouchCountsAsActivity ==
    [][\A r \in RoomIds :
         (last' # last /\ last'.op \in TouchingOps /\ last'.room_id = r /\ last'.ok
            /\ db'[r] # <<>>)
         => db'[r][1].last_activity = Now]_vars

\* C20: the sweep deletes only rooms that are empty or inactive at the
\* moment of the delete, so a room that gained a player or activity after
\* the sweep's query survives, and every operation on a room, request-path
\* join, toggle-ready, start and restart included, counts as activity
SweepPolicy == DeletedOnlyWhenIdle /\ TouchCountsAsActivity

(***************************************************************************)
(* Properties of the dispatcher.                                           *)
(***************************************************************************)
\* the playerAction events of the host-only variants
HostOnlyInputs == {input \in ActionInputs : input.action_type \in {"SHUFFLE_DECK", "DEAL_CARDS"}}

\* what the dispatcher makes of a host-only action of member g in an active
\* room: every outcome applies for the host, the one outcome for anyone
\* else is the host-only validation error
HostGate(room_opt, g, input) ==
    IF room_opt[1].host_id = g
    THEN \A out \in ActionOutcomes(room_opt, g, input) : out.error = OK
    ELSE ActionOutcomes(room_opt, g, input) =
            {[error |-> "Only the host can perform this action.", room |-> <<>>]}

\* C21: a Shuffle or Deal sent by a member of an active room who is not its
\* host is rejected with the host-only validation error and leaves the room
\* document (deck, table, hands, turn index, turn counter) as it was; the
\* same action sent by the host is accepted
HostOnlyGating ==
    /\ [](\A r \in RoomIds, g \in Guests : \A input \in HostOnlyInputs :
             (db[r] # <<>> /\ InRoom(db[r][1].players, g) /\ db[r][1].status = "active"
                /\ db[r][1].game_state # <<>>)
             => HostGate(db[r], g, input))
    /\ [][\A r \in RoomIds :
            (last' # last /\ last'.op = "player_action" /\ last'.room_id = r
               /\ last'.arg \in {"SHUFFLE_DECK", "DEAL_CARDS"}
               /\ db[r] # <<>> /\ InRoom(db[r][1].players, last'.guest)
               /\ db[r][1].status = "active" /\ db[r][1].game_state # <<>>)
            => IF db[r][1].host_id = last'.guest
               THEN last'.ok
               ELSE ~last'.ok /\ db'[r] = db[r]
                    /\ last'.emits[1].data.error = "Only the host can perform this action."]_vars

\* B, a member who is not the host, was just refused a Deal in a started game
DealByNonHostRefused ==
    /\ last.op = "player_action" /\ ~last.ok
    /\ last.guest = "B" /\ last.arg = "DEAL_CARDS"
    /\ last.emits[1].data.error = "Only the host can perform this action."
    /\ db["r1"] # <<>>
    /\ db["r1"][1].status = "active"
    /\ db["r1"][1].host_id = "A"
    /\ InRoom(db["r1"][1].players, "B")

\* outcome (a) of a player action on room r: the room was written and the
\* stored document, nothing else, was broadcast to the room
PersistedAndBroadcast(r) ==
    /\ last'.ok
    /\ last'.writes = 1
    /\ db'[r] # <<>>
    /\ last'.emits = <<Emit("gameStateUpdate", None, r, None, db'[r])>>

\* outcome (b): nothing was written and the one event sent is the failure
\* told to the sender's connection
ErrorToSenderOnly(r) ==
    /\ ~last'.ok
    /\ db' = db
    /\ Len(last'.emits) = 1
    /\ last'.emits[1].event = "player_action_failed"
    /\ last'.emits[1].to = SidOf(last'.guest)
    /\ last'.emits[1].room = None

\* C22: every player action ends either with the mutated room stored and
\* that stored room broadcast to the room, or with an error sent to the
\* sender alone and no broadcast; a write that matches no room is of the
\* second kind
ActionOutcomeIsDefinitive ==
    [][\A r \in RoomIds :
         (last' # last /\ last'.op = "player_action" /\ last'.room_id = r)
         => /\ PersistedAndBroadcast(r) \/ ErrorToSenderOnly(r)
            /\ db[r] = <<>> => ErrorToSenderOnly(r)]_vars

\* A's action had loaded the started room, the sweep deleted it, and the
\* write that matched no room ended in an error to A
WriteMatchedNoRoom ==
    /\ last.op = "player_action" /\ ~last.ok
    /\ last.guest = "A"
    /\ last.emits[1].data.error = "'NoneType' object has no attribute 'room_id'"
    /\ db["r1"] = <<>>

(***************************************************************************)
(* Properties of membership during a game.                                 *)
(***************************************************************************)
\* the operations that add a player to a room or take one out
MembershipOps == {"join_room_http", "join_game_room", "leave_room_http", "disconnect"}

\* C23: a join, leave or disconnect on a room with a game whose cards are
\* conserved leaves them conserved: deck, remaining hands, discard pile
\* and table still hold exactly the card set of the settings
MembershipConservesCards ==
    [][\A r \in RoomIds :
         (/\ last' # last
          /\ last'.op \in MembershipOps
          /\ db[r] # <<>> /\ db[r][1].game_state # <<>>
          /\ Conserved(db[r][1])
          /\ db'[r] # <<>>)
         => Conserved(db'[r][1])]_vars

(***************************************************************************)
(* Writes that race with other handlers: A creates a room of up to three   *)
(* players and starts the game, B and C join, B toggles ready and leaves,  *)
(* A plays; B's real-time join, toggle and leave are suspended between     *)
(* their read and their last write.                                        *)
(***************************************************************************)
\* join_game_room up to its emits: the handler holds the room
\* add_player_to_room returned
JoinWsAdd(g, room_id) ==
    /\ session[g].connected
    /\ inflight[g] = <<>>
    /\ sio_rooms' = [sio_rooms EXCEPT ![room_id] = @ \cup {SidOf(g)}]
    /\ session' = [session EXCEPT ![g].joined_rooms = JoinedAfterJoin(@, room_id)]
    /\ LET player_to_add == PlayerInRoom(g, SidOf(g), FALSE)
           added == add_player_to_room(db, room_id, player_to_add)
       IN  /\ db' = added.db
           /\ IF added.ret = <<>>
              THEN /\ inflight' = inflight
                   /\ last' = Done("join_game_room", g, room_id, None, FALSE, 0,
                                   <<Emit("error", SidOf(g), None, None,
                                          [message |-> "Failed to join room"])>>)
              ELSE /\ inflight' = [inflight EXCEPT ![g] =
                          <<Suspended("join_game_room", room_id, player_to_add, added.ret)>>]
                   /\ last' = Done("join_game_room", g, room_id, None, TRUE, 1,
                                   <<Emit("gameStateUpdate", SidOf(g), None, None, added.ret),
                                     Emit("playerJoined", None, room_id, SidOf(g),
                                          player_to_add)>>)
    /\ UNCHANGED <<successes, sweep>>

\* join_game_room from updated_room.last_activity = now on: update_room with
\* the room the handler holds; its result is not looked at
JoinWsRefresh(g) ==
    /\ inflight[g] # <<>>
    /\ inflight[g][1].op = "join_game_room"
    /\ LET req == inflight[g][1]
           refreshed == update_room(db, req.room_id, Touched(req.room[1]))
       IN  /\ db' = refreshed.db
           /\ last' = Done("refresh_last_activity", g, req.room_id, None, TRUE,
                           IF refreshed.ret = <<>> THEN 0 ELSE 1, <<>>)
    /\ inflight' = [inflight EXCEPT ![g] = <<>>]
    /\ UNCHANGED <<session, sio_rooms, successes, sweep>>

\* POST /rooms/{id}/toggle-ready up to the get_room_by_id of
\* toggle_player_ready; the request ends there when the room is missing or
\* does not list the guest
ToggleRead(g, room_id) ==
    /\ inflight[g] = <<>>
    /\ IF db[room_id] = <<>> \/ ~InRoom(db[room_id][1].players, g)
       THEN ToggleReady(g, room_id)
       ELSE /\ inflight' = [inflight EXCEPT ![g] =
                    <<Suspended("toggle_ready", room_id, None, db[room_id])>>]
            /\ UNCHANGED <<db, session, sio_rooms, successes, sweep, last>>

\* POST /rooms/{id}/toggle-ready from the update_one of toggle_player_ready on
ToggleWrite(g) ==
    /\ inflight[g] # <<>>
    /\ inflight[g][1].op = "toggle_ready"
    /\ LET req == inflight[g][1]
           res == toggle_after_read(db, req.room_id, g, req.room[1])
       IN  /\ db' = res.db
           /\ last' = IF res.ret = <<>>
                      THEN Done("toggle_ready", g, req.room_id, None, FALSE, 0, <<>>)
                      ELSE Done("toggle_ready", g, req.room_id, None, TRUE, 1,
                                <<Emit("gameStateUpdate", None, None, None, res.ret)>>)
    /\ inflight' = [inflight EXCEPT ![g] = <<>>]
    /\ UNCHANGED <<session, sio_rooms, successes, sweep>>

\* the game stored for room r, if any, has seen fewer than MaxActions turns
WithinTurns(r) ==
    IF db[r] = <<>> THEN TRUE
    ELSE IF db[r][1].game_state = <<>> THEN TRUE
    ELSE GS(db[r][1]).turn_number < MaxActions

NextRefresh ==
    \/ \E r \in Lobby : CreateRoom("A", r, UpsertSettings)
    \/ \E r \in Lobby : StartGameHttp("A", r)
    \/ \E r \in Lobby, input \in ConcInputs : WithinTurns(r) /\ PlayerAction("A", r, input)
    \/ \E r \in Lobby : JoinWsAdd("B", r)
    \/ JoinWsRefresh("B")
    \/ \E r \in Lobby : JoinRoomHttp("C", r)
    \/ \E r \in Lobby : ToggleRead("B", r)
    \/ ToggleWrite("B")
    \/ \E r \in Lobby : LeaveRead("B", r)
    \/ LeaveWrite("B")

SpecRefresh == InitConnected /\ [][NextRefresh]_vars

\* guest g's suspended request of kind op on room r resumes in this step,
\* the room stored before and after it
Resumes(g, r, op) ==
    /\ inflight[g] # <<>>
    /\ inflight[g][1].op = op
    /\ inflight[g][1].room_id = r
    /\ inflight'[g] = <<>>
    /\ db[r] # <<>>
    /\ db'[r] # <<>>

\* C24: the last write of a real-time join changes nothing of the stored
\* room but its last activity, the write of a toggle-ready nothing but the
\* ready flag of its guest, and the write of a leave nothing but the
\* guest's record and the host: what other operations stored between the
\* read and the write stays
WritesKeepConcurrentChanges ==
    [][\A g \in Guests, r \in RoomIds :
         /\ Resumes(g, r, "join_game_room") => db'[r][1] = Touched(db[r][1])
         /\ Resumes(g, r, "toggle_ready")
              => db'[r][1] = [db[r][1] EXCEPT !.players = ToggledPlayers(@, g)]
         /\ Resumes(g, r, "leave_room_http")
              => db'[r][1] = RoomWithoutPlayer(db[r][1], g)]_vars

(***************************************************************************)
(* Session-to-room binding against the stored player list                  *)
(***************************************************************************)

\* guest g's connection is bound to room r: it is in the room's delivery
\* group or lists the room in its joined set
Bound(g, r) == SidOf(g) \in sio_rooms[r] \/ Contains(session[g].joined_rooms, r)

\* C25: a connection bound to a room belongs to a guest of that room's
\* stored player list; a rejected real-time join leaves no binding
BindingMatchesPlayers ==
    \A g \in Guests, r \in RoomIds :
        Bound(g, r) => db[r] # <<>> /\ InRoom(db[r][1].players, g)

(***************************************************************************)
(* Reading a room: GET /rooms/{id}                                         *)
(***************************************************************************)

\* RoomResponse.from_orm: the projection of a stored room sent to clients
from_orm(obj) ==
    [host_id |-> obj.host_id, status |-> obj.status, settings |-> obj.settings,
     game_state |-> obj.game_state, current_players |-> Len(obj.players),
     players |-> obj.players, last_activity |-> obj.last_activity]

\* a read that counts as activity: it stamps the room before answering
GetRoomTouching(g, room_id) ==
    /\ LET db_room == get_room_by_id(db, room_id)
       IN  IF db_room = <<>>
           THEN /\ last' = Done("get_room", g, room_id, None, FALSE, 0, <<>>)
                /\ db' = db
           ELSE /\ last' = Done("get_room", g, room_id, None, TRUE, 1,
                                <<Emit("RoomResponse", None, None, None,
                                       from_orm(Touched(db_room[1])))>>)
                /\ db' = update_room(db, room_id, Touched(db_room[1])).db
    /\ UNCHANGED <<sweep, session, sio_rooms, inflight, successes>>

\* GET /rooms/{id}: 404 when the room is not stored, else its projection
GetRoom(g, room_id) ==
    /\ LET db_room == get_room_by_id(db, room_id)
       IN  IF db_room = <<>>
           THEN last' = Done("get_room", g, room_id, None, FALSE, 0, <<>>)
           ELSE last' = Done("get_room", g, room_id, None, TRUE, 0,
                             <<Emit("RoomResponse", None, None, None,
                                    from_orm(db_room[1]))>>)
    /\ UNCHANGED <<db, sweep, session, sio_rooms, inflight, successes>>

\* rooms are created, filled, started, left and read while time passes
NextRead ==
    \/ \E r \in Lobby : CreateRoom("A", r, GameSettings)
    \/ \E r \in Lobby : JoinRoomHttp("B", r)
    \/ \E r \in Lobby : ToggleReady("B", r)
    \/ \E r \in Lobby : StartGameHttp("A", r)
    \/ \E r \in Lobby : LeaveRoomHttp("B", r)
    \/ WindowPasses
    \/ \E g \in Members, r \in RoomIds : GetRoom(g, r)

SpecRead == InitConnected /\ [][NextRead]_vars

\* C26: a fetch of a room leaves the room store as it was and answers with
\* the projection of the stored room (404 when there is none), so a second
\* fetch right after a first one answers with identical data
IdempotentRead ==
    [][\A r \in RoomIds :
         (last' # last /\ last'.op = "get_room" /\ last'.room_id = r)
           => /\ db' = db
              /\ last'.ok = (db[r] # <<>>)
              /\ last'.ok => last'.emits[1].data = from_orm(db[r][1])
              /\ (last.op = "get_room" /\ last.room_id = r)
                    => last'.ok = last.ok /\ last'.emits = last.emits]_vars

\* a started room whose last activity lies outside the window has been read
ReadStaleStartedRoom ==
    /\ last.op = "get_room"
    /\ last.ok
    /\ db[last.room_id][1].status = "active"
    /\ db[last.room_id][1].last_activity = Expired
    /\ last.emits[1].data.current_players = 2

(***************************************************************************)
(* Recall                                                                  *)
(***************************************************************************)

\* the room after player player_index of room played the payload cards
\* through handle_player_action
AfterPlay(room, player_index, cards) ==
    AdvanceTurn(play_cards(room, player_index, cards))

\* the last-action record of room names nobody and holds nothing for guest_id
RecordCleared(room, guest_id) ==
    /\ GS(room).last_player_id = None
    /\ guest_id \notin DOMAIN GS(room).last_played_or_discarded_cards

\* a recall by player player_index right after their own play of cards in
\* room takes the pile off the table again, appends the cards to the hand,
\* which gets back its size of before the play, and clears the record
RecallUndoesPlayOf(room, player_index, cards) ==
    LET played == AfterPlay(room, player_index, cards)
        recalled == recall_cards(played, player_index)
    IN  /\ validate_action("RecallCardsAction", NoData, player_index, played) = OK
        /\ GS(recalled).table = GS(room).table
        /\ recalled.players[player_index].hand = played.players[player_index].hand \o cards
        /\ Len(recalled.players[player_index].hand) = Len(room.players[player_index].hand)
        /\ RecordCleared(recalled, room.players[player_index].guest_id)

\* C27: in every started room, for every play the room accepts from one of
\* its players, the recall that follows at once removes exactly the played
\* pile, returns exactly its cards to the hand (same size as before the
\* play) and clears the last-action record
RecallUndoesPlay ==
    \A r \in RoomIds :
        (db[r] # <<>> /\ db[r][1].status = "active" /\ db[r][1].game_state # <<>>)
          => \A i \in 1..Len(db[r][1].players), cards \in CardLists :
                validate_action("PlayCardsAction", ActionData(cards, None, 0), i, db[r][1]) = OK
                  => RecallUndoesPlayOf(db[r][1], i, cards)

\* the room after player player_index of room discarded the payload cards
\* through handle_player_action
AfterDiscard(room, player_index, cards) ==
    AdvanceTurn(discard_cards(room, player_index, cards))

\* a recall by player player_index right after their own discard of cards
\* in room is accepted, takes the cards out of the discard pile and
\* appends them to the hand
RecallUndoesDiscardOf(room, player_index, cards) ==
    LET discarded == AfterDiscard(room, player_index, cards)
        recalled == recall_cards(discarded, player_index)
    IN  /\ validate_action("RecallCardsAction", NoData, player_index, discarded) = OK
        /\ \A i \in 1..Len(cards) : ~Contains(GS(recalled).discard_pile, cards[i])
        /\ recalled.players[player_index].hand
              = discarded.players[player_index].hand \o cards

\* C28: in every started room, for every discard of distinct owned cards
\* the room accepts from one of its players, the recall that follows at
\* once is accepted, table pile or not, leaves none of the cards in the
\* discard pile and returns them to the hand
RecallUndoesDiscard ==
    \A r \in RoomIds :
        (db[r] # <<>> /\ db[r][1].status = "active" /\ db[r][1].game_state # <<>>)
          => \A i \in 1..Len(db[r][1].players), cards \in CardLists :
                ( /\ cards # <<>>
                  /\ Cardinality(Range(cards)) = Len(cards)
                  /\ validate_action("DiscardCardsAction", ActionData(cards, None, 0),
                                     i, db[r][1]) = OK )
                  => RecallUndoesDiscardOf(db[r][1], i, cards)

\* guest g's playerAction of type action_type on room r succeeds in this step
Succeeds(r, action_type) ==
    /\ last' # last
    /\ last'.op = "player_action"
    /\ last'.arg = action_type
    /\ last'.room_id = r
    /\ last'.ok

\* C29: a successful recall does not rewind the turn: the turn counter
\* does not decrease, it grows by one, and the current player index moves
\* on by one modulo the length of the turn order
RecallAdvancesTurn ==
    [][\A r \in RoomIds :
         Succeeds(r, "RECALL_CARDS")
           => LET before == GS(db[r][1])
                  after == GS(db'[r][1])
              IN  /\ after.turn_number >= before.turn_number
                  /\ after.turn_number = before.turn_number + 1
                  /\ before.turn_order # <<>>
                  /\ after.current_player_index
                       = (before.current_player_index + 1) % Len(before.turn_order)]_vars

\* the same for games that have a turn order, as the request path starts them
RecallAdvancesTurnInOrder ==
    [][\A r \in RoomIds :
         (Succeeds(r, "RECALL_CARDS") /\ GS(db[r][1]).turn_order # <<>>)
           => LET before == GS(db[r][1])
                  after == GS(db'[r][1])
              IN  /\ after.turn_number = before.turn_number + 1
                  /\ after.current_player_index
                       = (before.current_player_index + 1) % Len(before.turn_order)]_vars

(***************************************************************************)
(* Ownership validation                                                    *)
(***************************************************************************)

\* the requests that move cards out of the sender's hand
OwnershipInputs ==
    {input \in ActionInputs :
        input.action_type \in {"PLAY_CARDS", "DISCARD_CARDS", "MOVE_CARD_TO_PLAYER"}}

\* the payload cards names a card that is not in hand
NotAllOwned(hand, cards) == \E i \in 1..Len(cards) : ~Contains(hand, cards[i])

\* the payload cards names a card of the hand and a card that is not in it
PartlyOwned(hand, cards) ==
    /\ NotAllOwned(hand, cards)
    /\ \E i \in 1..Len(cards) : Contains(hand, cards[i])

\* the hand guest g holds in room
HandOf(room, g) == room.players[PlayerIndex(room.players, g)].hand

\* C30: ownership validation is all-or-nothing.  A play, discard or
\* transfer of a member of a started game that names a card the member does
\* not hold has one outcome, the ownership error with no room to write,
\* whatever cards of the payload the member does hold; and a refused play,
\* discard or transfer leaves the stored room, hands, table, discard pile
\* and last-play record included, as it was
OwnershipAllOrNothing ==
    /\ [](\A r \in RoomIds, g \in Guests :
             \A input \in OwnershipInputs :
                ( /\ db[r] # <<>>
                  /\ ValidateRequest(db[r], g, input.action_type) = OK
                  /\ NotAllOwned(HandOf(db[r][1], g), input.action_data.cards) )
                => ActionOutcomes(db[r], g, input)
                     = {[error |-> "Player does not have all of these cards",
                         room |-> <<>>]})
    /\ [][\A r \in RoomIds :
             ( /\ last' # last
               /\ last'.op = "player_action"
               /\ last'.room_id = r
               /\ last'.arg \in {"PLAY_CARDS", "DISCARD_CARDS", "MOVE_CARD_TO_PLAYER"}
               /\ ~last'.ok )
             => db'[r] = db[r]]_vars

\* a member holding a card was just refused a discard, and a payload in
\* reach names that card together with one the member does not hold
DiscardOfPartlyOwnedRefused ==
    /\ last.op = "player_action" /\ ~last.ok
    /\ last.arg = "DISCARD_CARDS"
    /\ last.emits[1].data.error = "Player does not have all of these cards"
    /\ db[last.room_id] # <<>>
    /\ InRoom(db[last.room_id][1].players, last.guest)
    /\ \E cards \in CardLists :
          PartlyOwned(HandOf(db[last.room_id][1], last.guest), cards)

(***************************************************************************)
(* The draw variants and the reorder variant                               *)
(***************************************************************************)

\* the stored room of r holds a started game
Started(r) ==
    /\ db[r] # <<>>
    /\ db[r][1].status = "active"
    /\ db[r][1].game_state # <<>>

\* C31: emptiness validation.  In every started room the validation of a
\* Draw and of a Draw-to-discard turns a member down when the deck is
\* empty, and the validation of a Draw-from-discard when the discard pile
\* is empty
EmptinessValidation ==
    \A r \in RoomIds :
        Started(r) =>
            \A i \in 1..Len(db[r][1].players) :
                LET room == db[r][1]
                IN  /\ GS(room).deck = <<>>
                        => /\ validate_action("DrawCardAction", NoData, i, room) # OK
                           /\ validate_action("DrawToDiscardAction", NoData, i, room) # OK
                    /\ GS(room).discard_pile = <<>>
                        => validate_action("DrawFromDiscardAction", NoData, i, room) # OK

\* the playerAction event of type action_type with no payload
Request(action_type) == [action_type |-> action_type, action_data |-> NoData]

\* C32: every primitive is reachable through the dispatcher.  The draw and
\* reorder types are selectable, and a DRAW_CARD of a member of a started
\* room with cards in the deck has one outcome: the room with the last
\* card of the deck appended to the member's hand, the turn advanced
EveryPrimitiveDispatched ==
    \A r \in RoomIds, g \in Guests :
        (Started(r) /\ InRoom(db[r][1].players, g) /\ GS(db[r][1]).deck # <<>>)
          => /\ \A t \in {"DRAW_CARD", "DRAW_TO_DISCARD", "DRAW_FROM_DISCARD",
                           "UPDATE_HAND_ORDER"} :
                   ValidateRequest(db[r], g, t) = OK
             /\ ActionOutcomes(db[r], g, Request("DRAW_CARD"))
                  = {[error |-> OK,
                      room |-> <<AdvanceTurn(draw_card(db[r][1],
                                    PlayerIndex(db[r][1].players, g)))>>]}

(***************************************************************************)
(* Play                                                                    *)
(***************************************************************************)

\* play_cards of the payload cards by player player_index of room takes
\* exactly the cards of the payload out of that hand, puts the payload as
\* one pile at the end of the table, records player and payload as the last
\* play, and leaves deck, discard pile and the other players alone
PlayMovesExactly(room, player_index, cards) ==
    LET played == play_cards(room, player_index, cards)
        hand == room.players[player_index].hand
        guest_id == room.players[player_index].guest_id
    IN  /\ \A c \in AllCards :
              Count(played.players[player_index].hand, c) = Count(hand, c) - Count(cards, c)
        /\ GS(played).table = Append(GS(room).table, cards)
        /\ GS(played).deck = GS(room).deck
        /\ GS(played).discard_pile = GS(room).discard_pile
        /\ Len(played.players) = Len(room.players)
        /\ \A j \in 1..Len(room.players) :
              j # player_index => played.players[j] = room.players[j]
        /\ GS(played).last_player_id = guest_id
        /\ guest_id \in DOMAIN GS(played).last_played_or_discarded_cards
        /\ GS(played).last_played_or_discarded_cards[guest_id] = cards

\* C33: in every started room, every play the room accepts from one of its
\* players removes exactly the played cards from the hand, adds exactly one
\* pile equal to the payload at the end of the table, changes nothing else
\* and sets the last-play record to the player and the payload
PlayOutcome ==
    \A r \in RoomIds :
        Started(r) =>
            \A i \in 1..Len(db[r][1].players), cards \in CardLists :
                validate_action("PlayCardsAction", ActionData(cards, None, 0), i, db[r][1]) = OK
                  => PlayMovesExactly(db[r][1], i, cards)

\* the same for payloads that name no card twice
PlayOutcomeOfDistinctCards ==
    \A r \in RoomIds :
        Started(r) =>
            \A i \in 1..Len(db[r][1].players), cards \in CardLists :
                ( /\ Cardinality(Range(cards)) = Len(cards)
                  /\ validate_action("PlayCardsAction", ActionData(cards, None, 0),
                                     i, db[r][1]) = OK )
                  => PlayMovesExactly(db[r][1], i, cards)

(***************************************************************************)
(* Reorder hand                                                            *)
(***************************************************************************)

\* hand and other hold the same cards, each as often
SameCards(hand, other) == \A c \in AllCards : Count(hand, c) = Count(other, c)

\* C34: in every started room, a reorder accepted from one of its players
\* with any client-supplied list leaves that player with the same cards as
\* before and changes nothing else of the room
ReorderKeepsCards ==
    \A r \in RoomIds :
        Started(r) =>
            \A i \in 1..Len(db[r][1].players), cards \in CardLists :
                validate_action("UpdateHandOrderAction", ActionData(cards, None, 0),
                                i, db[r][1]) = OK
                  => \A reordered \in apply("UpdateHandOrderAction",
                                             ActionData(cards, None, 0), i, db[r][1]) :
                        /\ SameCards(reordered.players[i].hand, db[r][1].players[i].hand)
                        /\ reordered.game_state = db[r][1].game_state
                        /\ \A j \in 1..Len(db[r][1].players) :
                              j # i => reordered.players[j] = db[r][1].players[j]

(***************************************************************************)
(* The turn order of a round                                               *)
(***************************************************************************)

\* the operations that begin a round
RoundOps == {"start_game_http", "start_game", "restart_game"}

\* room r holds a game before and after this step
GameGoesOn(r) ==
    /\ db[r] # <<>> /\ db[r][1].game_state # <<>>
    /\ db'[r] # <<>> /\ db'[r][1].game_state # <<>>

\* C35: the turn order is fixed for the round.  A step that is not a start
\* or a restart (a player action, a join, a leave, a disconnect, whole or
\* resumed) leaves the turn order of a stored game as it is; a successful
\* restart sets it to the guest ids of the player list it stores
TurnOrderFixedForRound ==
    [][\A r \in RoomIds :
         /\ (GameGoesOn(r) /\ last'.op \notin RoundOps)
              => GS(db'[r][1]).turn_order = GS(db[r][1]).turn_order
         /\ (last' # last /\ last'.op = "restart_game" /\ last'.ok /\ last'.room_id = r)
              => GS(db'[r][1]).turn_order = guest_ids(db'[r][1].players)]_vars

(***************************************************************************)
(* Two connections of one guest.  A connection is a session slot conn with *)
(* sid SidOf(conn); its session holds the guest id g of the token it       *)
(* presented, which need not be the guest the slot is named after.         *)
(***************************************************************************)

\* join_game_room on connection conn, whose session names guest g
JoinGameRoomAs(conn, g, room_id) ==
    /\ session[conn].connected
    /\ sio_rooms' = [sio_rooms EXCEPT ![room_id] = @ \cup {SidOf(conn)}]
    /\ session' = [session EXCEPT ![conn].joined_rooms = JoinedAfterJoin(@, room_id)]
    /\ LET player_to_add == PlayerInRoom(g, SidOf(conn), FALSE)
           added == add_player_to_room(db, room_id, player_to_add)
           refreshed == update_room(added.db, room_id, Touched(added.ret[1]))
       IN  IF added.ret = <<>>
           THEN /\ db' = added.db
                /\ last' = Done("join_game_room", g, room_id, SidOf(conn), FALSE, 0,
                                <<Emit("error", SidOf(conn), None, None,
                                       [message |-> "Failed to join room"])>>)
           ELSE /\ db' = refreshed.db
                /\ last' = Done("join_game_room", g, room_id, SidOf(conn), TRUE, 2,
                                <<Emit("gameStateUpdate", SidOf(conn), None, None,
                                       get_room_by_id(added.db, room_id)),
                                  Emit("playerJoined", None, room_id, SidOf(conn),
                                       player_to_add)>>)
    /\ UNCHANGED <<sweep, inflight, successes>>

\* disconnect of connection conn, whose session names guest g: the loop of
\* handle_disconnect removes guest g from every room the session lists
DisconnectAs(conn, g) ==
    /\ session[conn].connected
    /\ inflight[conn] = <<>>
    /\ LET res == DisconnectLoop(db, session[conn].joined_rooms, g)
       IN  /\ db' = res.db
           /\ last' = Done("disconnect", g, None, SidOf(conn), TRUE, res.writes,
                           [i \in 1..Len(res.emits) |->
                               [res.emits[i] EXCEPT !.skip_sid = SidOf(conn)]])
    /\ session' = [session EXCEPT ![conn] = NoSession]
    /\ sio_rooms' = [r \in RoomIds |-> sio_rooms[r] \ {SidOf(conn)}]
    /\ UNCHANGED <<sweep, inflight, successes>>

\* the connections guest B holds: the old one and the one B reconnects on
ConnectionsOfB == {"B", "C"}

\* A's room is joined by B on either connection, readied and started, and
\* either connection of B drops
NextReconnect ==
    \/ \E r \in Lobby : CreateRoom("A", r, GameSettings)
    \/ \E conn \in ConnectionsOfB, r \in Lobby : JoinGameRoomAs(conn, "B", r)
    \/ \E conn \in ConnectionsOfB : DisconnectAs(conn, "B")
    \/ \E conn \in ConnectionsOfB : Connect(conn)
    \/ \E r \in Lobby : ToggleReady("B", r)
    \/ \E r \in Lobby : StartGameHttp("A", r)

SpecReconnect == InitConnected /\ [][NextReconnect]_vars

\* C36: a late disconnect does not evict a reconnected player.  When a
\* connection of guest g drops while g's record in a room the connection
\* had joined is bound to another connection, the record stays in the
\* player list with its hand and its ready flag
LateDisconnectKeepsPlayer ==
    [][\A conn \in Guests, g \in Guests, r \in RoomIds :
         ( /\ last' # last
           /\ last'.op = "disconnect" /\ last'.guest = g /\ last'.arg = SidOf(conn)
           /\ Contains(session[conn].joined_rooms, r)
           /\ db[r] # <<>>
           /\ InRoom(db[r][1].players, g)
           /\ db[r][1].players[PlayerIndex(db[r][1].players, g)].sid # SidOf(conn) )
         => /\ db'[r] # <<>>
            /\ InRoom(db'[r][1].players, g)
            /\ LET before == db[r][1].players[PlayerIndex(db[r][1].players, g)]
                   after == db'[r][1].players[PlayerIndex(db'[r][1].players, g)]
               IN  after.hand = before.hand /\ after.is_ready = before.is_ready]_vars

(***************************************************************************)
(* Joins of one guest that overlap                                         *)
(***************************************************************************)

\* guest B joins A's room over the request path, suspended between the
\* read and the add of add_player_to_room, and over either of B's
\* connections, and leaves it
NextTwice ==
    \/ \E r \in Lobby : CreateRoom("A", r, UpsertSettings)
    \/ \E r \in Lobby : JoinRead("B", r)
    \/ JoinWrite("B")
    \/ \E conn \in ConnectionsOfB, r \in Lobby : JoinGameRoomAs(conn, "B", r)
    \/ \E r \in Lobby : LeaveRoomHttp("B", r)
    \/ \E conn \in ConnectionsOfB : DisconnectAs(conn, "B")
    \/ \E conn \in ConnectionsOfB : Connect(conn)

SpecTwice == InitConnected /\ [][NextTwice]_vars

\* C37: guest ids are unique within a room.  No stored player list names a
\* guest twice, also when joins of the same guest overlap
UniqueGuestIds ==
    \A r \in RoomIds :
        db[r] # <<>> =>
            \A i, j \in 1..Len(db[r][1].players) :
                i # j => db[r][1].players[i].guest_id # db[r][1].players[j].guest_id

\* B's request-path join read the room without B, another join of B was
\* stored, and the add of the first join then matched nothing
OverlappingJoinMatchedNothing ==
    /\ last.op = "join_room_http" /\ last.guest = "B"
    /\ last.ok /\ last.writes = 0
    /\ db[last.room_id] # <<>>
    /\ InRoom(db[last.room_id][1].players, "B")

(***************************************************************************)
(* Turn fields                                                             *)
(***************************************************************************)

\* C38: the turn fields stay mutually consistent.  In every stored game
\* with a turn order the current player index lies within the turn order
\* and the turn-holder is the guest at that index
TurnFieldsConsistent ==
    \A r \in RoomIds :
        (db[r] # <<>> /\ db[r][1].game_state # <<>> /\ GS(db[r][1]).turn_order # <<>>)
          => LET gs == GS(db[r][1])
             IN  /\ 0 <= gs.current_player_index
                 /\ gs.current_player_index < Len(gs.turn_order)
                 /\ gs.current_turn_guest_id = gs.turn_order[gs.current_player_index + 1]

\* two successful actions took the turn of a two-player round back to the
\* first player
TurnWrappedAround ==
    /\ last.op = "player_action" /\ last.ok
    /\ Started(last.room_id)
    /\ Len(GS(db[last.room_id][1]).turn_order) = 2
    /\ GS(db[last.room_id][1]).turn_number = 2
    /\ GS(db[last.room_id][1]).current_player_index = 0

\* guest g is a member of started room r, which has a turn-holder other
\* than g
OutOfTurn(r, g) ==
    /\ Started(r)
    /\ InRoom(db[r][1].players, g)
    /\ GS(db[r][1]).current_turn_guest_id \notin {None, g}

\* C39: the dispatcher does not enforce turn ownership.  A request of a
\* member who is not the turn-holder, in or out of the turn order, that
\* passes the validation of its variant is accepted and applied, and the
\* room it writes has the current player index moved on by one modulo the
\* turn-order length and the turn counter raised by one
NoTurnOwnership ==
    /\ [](\A r \in RoomIds, g \in Guests :
             \A input \in ActionInputs :
                ( /\ OutOfTurn(r, g)
                  /\ action_classes(input.action_type) # None
                  /\ validate_action(action_classes(input.action_type), input.action_data,
                                     PlayerIndex(db[r][1].players, g), db[r][1]) = OK )
                => /\ ActionOutcomes(db[r], g, input)
                       = {[error |-> OK, room |-> <<AdvanceTurn(applied)>>] :
                            applied \in apply(action_classes(input.action_type),
                                              input.action_data,
                                              PlayerIndex(db[r][1].players, g), db[r][1])}
                   /\ \A out \in ActionOutcomes(db[r], g, input) :
                         /\ GS(out.room[1]).turn_number = GS(db[r][1]).turn_number + 1
                         /\ GS(out.room[1]).current_player_index
                              = (GS(db[r][1]).current_player_index + 1)
                                  % Len(GS(db[r][1]).turn_order))
    /\ [][\A r \in RoomIds, g \in Guests :
             ( /\ OutOfTurn(r, g)
               /\ last' # last /\ last'.op = "player_action" /\ last'.ok
               /\ last'.room_id = r /\ last'.guest = g )
             => /\ GS(db'[r][1]).turn_number = GS(db[r][1]).turn_number + 1
                /\ GS(db'[r][1]).current_player_index
                     = (GS(db[r][1]).current_player_index + 1)
                         % Len(GS(db[r][1]).turn_order)]_vars

\* a member who joined after the start and is not in the turn order has
\* acted, and the turn moved on
LateJoinerActed ==
    /\ last.op = "player_action" /\ last.ok
    /\ Started(last.room_id)
    /\ InRoom(db[last.room_id][1].players, last.guest)
    /\ ~Contains(GS(db[last.room_id][1]).turn_order, last.guest)
    /\ GS(db[last.room_id][1]).turn_order # <<>>
    /\ GS(db[last.room_id][1]).turn_number = 1

(***************************************************************************)
(* The two start paths                                                     *)
(***************************************************************************)

\* C40: the two start paths are equivalent.  A successful start over the
\* real-time start_game event, of a room whose deck can serve the deal,
\* leaves the room in the shape the request-path start leaves it in: every
\* hand dealt initial_deal_count cards, the turn order equal to the player
\* list, the current player index 0 and the first player holding the turn
StartPathsEquivalent ==
    [][\A r \in RoomIds :
         ( /\ last' # last /\ last'.op = "start_game" /\ last'.ok
           /\ last'.room_id = r
           /\ db[r] # <<>>
           /\ DealDemand(db[r][1]) <= DeckSize(db[r][1]) )
         => /\ db'[r] # <<>>
            /\ db'[r][1].game_state # <<>>
            /\ \A i \in 1..Len(db'[r][1].players) :
                  Len(db'[r][1].players[i].hand) = db[r][1].settings.initial_deal_count
            /\ GS(db'[r][1]).turn_order = guest_ids(db[r][1].players)
            /\ GS(db'[r][1]).current_player_index = 0
            /\ GS(db'[r][1]).current_turn_guest_id = db[r][1].players[1].guest_id]_vars

====
